---- MODULE Spec2Model ----
(***************************************************************************)
(* Rusteer decryption engine (src/src/crypto/mod.rs): key derivation, the  *)
(* striped Blowfish-CBC transform (whole buffer and streaming), the        *)
(* AES-128-CTR transform and the dispatcher decrypt_file.                  *)
(*                                                                         *)
(* Bytes are integers 0..255 and buffers are sequences of bytes.  The      *)
(* primitives of the external crates (md-5, blowfish, aes/ctr) are not     *)
(* part of the repository: MD5 is tabulated with the real digests of the   *)
(* identifiers the model uses, the raw Blowfish block decryption and the   *)
(* AES-CTR keystream are fixed key-dependent byte functions.               *)
(***************************************************************************)
EXTENDS Integers, Sequences, FiniteSets, TLC

\* ------------------------------------------------------------------------
\* Program constants
\* ------------------------------------------------------------------------

\* const SECRET_KEY: &[u8] = b"g4el58wc0zvf9na1"
SECRET_KEY == <<103, 52, 101, 108, 53, 56, 119, 99, 48, 122, 118, 102, 57, 110, 97, 49>>

\* const BLOWFISH_IV: [u8; 8]
BLOWFISH_IV == <<0, 1, 2, 3, 4, 5, 6, 7>>

\* const BLOCK_SIZE: usize = 2048
BLOCK_SIZE == 2048

\* const BF_BLOCK_SIZE: usize = 8
BF_BLOCK_SIZE == 8

\* the key length decrypt_aes_ctr accepts (line 250)
AES_KEY_LEN == 16

\* the nonce length decrypt_aes_ctr accepts (line 257)
AES_NONCE_LEN == 16

\* ------------------------------------------------------------------------
\* State
\* ------------------------------------------------------------------------

VARIABLES
    fs,           \* the file at each output path
    pc,           \* the position of the running call, "idle" between calls
    calls_done,   \* how many calls have returned
    args,         \* the arguments of the running (or last) call
    first,        \* the arguments of the first call, once it has returned
    ret,          \* the results of the calls that returned, in order
    track_key,    \* local of decrypt_track and decrypt_track_streaming: key
    block_count,  \* local: block_count
    cursor,       \* the position of the open output file
    accumulated,  \* local of decrypt_track_streaming: accumulated
    src_pos,      \* the bytes the source has yielded so far
    bf_calls,     \* the blocks handed to decrypt_blowfish_chunk: <<path, index, length>>
    ciphers,      \* how many AES ciphers have been constructed
    decrypted,    \* local of decrypt_file: decrypted
    analysis,     \* local of analyze_flac_file: analysis
    inv,          \* the invocations that run concurrently: their arguments and locals
    media,        \* Deezloader::find_media_url: preferred_quality, the loop, the requests
    batch         \* download_album_to / download_playlist_to: the tracks, the loop, result

vars == <<fs, pc, calls_done, args, first, ret, track_key, block_count, cursor,
          accumulated, src_pos, bf_calls, ciphers, decrypted, analysis, inv, media, batch>>

\* ------------------------------------------------------------------------
\* Bytes
\* ------------------------------------------------------------------------

Min(a, b) == IF a < b THEN a ELSE b

\* bitwise exclusive or of two w-bit integers (the ^ of u8)
RECURSIVE XorBits(_, _, _)
XorBits(a, b, w) ==
    IF w = 0 THEN 0
    ELSE ((a + b) % 2) + 2 * XorBits(a \div 2, b \div 2, w - 1)

XorTable == [a \in 0..255 |-> [b \in 0..255 |-> XorBits(a, b, 8)]]

Xor(a, b) == XorTable[a][b]

\* ------------------------------------------------------------------------
\* Key derivation
\* ------------------------------------------------------------------------

\* Md5::new().update(data).finalize(): the 16 digest bytes (md-5 crate),
\* tabulated for the identifiers of the model.
Md5Digest(data) ==
    CASE data = "" ->
           <<212, 29, 140, 217, 143, 0, 178, 4, 233, 128, 9, 152, 236, 248, 66, 126>>
      [] data = "3135556" ->
           <<41, 161, 95, 199, 15, 178, 120, 0, 154, 182, 152, 140, 233, 164, 34, 232>>
      [] data = "test_song_id" ->
           <<181, 121, 14, 29, 248, 238, 112, 162, 88, 69, 18, 210, 102, 187, 171, 205>>

\* hex::encode: two lowercase hexadecimal ASCII characters per byte
HexChars == <<48, 49, 50, 51, 52, 53, 54, 55, 56, 57, 97, 98, 99, 100, 101, 102>>

\* hexadecimal text in upper case
HexEncodeUpper(bytes) ==
    [k \in 1..(2 * Len(bytes)) |->
        LET b == bytes[(k + 1) \div 2]
            n == IF k % 2 = 1 THEN b \div 16 ELSE b % 16
        IN IF n < 10 THEN 48 + n ELSE 55 + n]

HexEncode(bytes) ==
    [k \in 1..(2 * Len(bytes)) |->
        LET b == bytes[(k + 1) \div 2]
        IN IF k % 2 = 1 THEN HexChars[(b \div 16) + 1] ELSE HexChars[(b % 16) + 1]]

md5_hex(data) == HexEncode(Md5Digest(data))

\* the value of a hexadecimal ASCII character of either case, -1 for any other
HexVal(c) ==
    IF c \in 48..57 THEN c - 48
    ELSE IF c \in 97..102 THEN c - 87
    ELSE IF c \in 65..70 THEN c - 55
    ELSE -1

\* hex::decode: Err for an odd length or a character that is no hexadecimal
\* digit, else one byte per two characters
HexDecode(str) ==
    IF Len(str) % 2 /= 0 \/ (\E k \in 1..Len(str) : HexVal(str[k]) = -1)
    THEN [ok |-> FALSE, bytes |-> <<>>]
    ELSE [ok |-> TRUE,
          bytes |-> [k \in 1..(Len(str) \div 2) |->
                        16 * HexVal(str[2 * k - 1]) + HexVal(str[2 * k])]]

\* the loop of lines 76-79 run for 3 bytes only
calc_blowfish_key_short(song_id) ==
    LET hash_bytes == md5_hex(song_id)
    IN [i \in 1..3 |-> Xor(Xor(hash_bytes[i], hash_bytes[i + 16]), SECRET_KEY[i])]

calc_blowfish_key(song_id) ==
    LET hash_bytes == md5_hex(song_id)
    IN [i \in 1..16 |-> Xor(Xor(hash_bytes[i], hash_bytes[i + 16]), SECRET_KEY[i])]

\* ------------------------------------------------------------------------
\* Blowfish CBC
\* ------------------------------------------------------------------------

\* cipher.decrypt_block(block): the raw Blowfish decryption of one 8-byte
\* block under the key (blowfish crate), a key-dependent bijection of blocks.
decrypt_block(key, block) ==
    [i \in 1..BF_BLOCK_SIZE |->
        (block[BF_BLOCK_SIZE + 1 - i] + key[i] + 3 * key[i + 8] + i) % 256]

\* cbc_step with the decrypted chunk, not the saved ciphertext, kept as
\* prev_block
cbc_step_plain_prev(chunk, key, prev_block) ==
    LET dec == decrypt_block(key, chunk)
        plain == [i \in 1..BF_BLOCK_SIZE |-> Xor(dec[i], prev_block[i])]
    IN [out |-> plain, prev |-> plain]

\* One iteration of the loop of decrypt_blowfish_cbc on a whole 8-byte chunk:
\* the ciphertext is saved, the chunk is decrypted and XORed with prev_block,
\* and the saved ciphertext becomes prev_block.
cbc_step(chunk, key, prev_block) ==
    LET ciphertext == chunk
        dec == decrypt_block(key, chunk)
    IN [out |-> [i \in 1..BF_BLOCK_SIZE |-> Xor(dec[i], prev_block[i])],
        prev |-> ciphertext]

\* The loop over the whole chunks lo .. hi-1 of data, in order, carrying
\* prev_block from each chunk to the next (evaluated by halving the range).
RECURSIVE cbc_range(_, _, _, _, _)
cbc_range(data, key, prev_block, lo, hi) ==
    IF hi - lo = 1
    THEN cbc_step(SubSeq(data, BF_BLOCK_SIZE * lo + 1, BF_BLOCK_SIZE * lo + BF_BLOCK_SIZE),
                  key, prev_block)
    ELSE LET mid == (lo + hi) \div 2
             left == cbc_range(data, key, prev_block, lo, mid)
             right == cbc_range(data, key, left.prev, mid, hi)
         IN [out |-> left.out \o right.out, prev |-> right.prev]

\* prev_block carried over from the bytes written before this block
prev_block_carried ==
    IF cursor >= BF_BLOCK_SIZE
    THEN SubSeq(fs[args.path].bytes, cursor - BF_BLOCK_SIZE + 1, cursor)
    ELSE BLOWFISH_IV

\* let mut prev_block = BLOWFISH_IV.to_vec() (line 107)
prev_block_start == BLOWFISH_IV

\* Blowfish::new_from_slice(key) of lines 103-104 is Ok for a key of 4 to 56
\* bytes (blowfish crate); for any other length the expect panics
BlowfishKeySetupOk(key) == Len(key) \in 4..56

\* result = data.to_vec(); every whole 8-byte chunk is replaced, the loop
\* breaks at a chunk shorter than 8 bytes, which stays as it is.
decrypt_blowfish_cbc(data, key) ==
    LET nfull == Len(data) \div BF_BLOCK_SIZE
    IN IF nfull = 0 THEN data
       ELSE cbc_range(data, key, prev_block_start, 0, nfull).out
                \o SubSeq(data, BF_BLOCK_SIZE * nfull + 1, Len(data))

decrypt_blowfish_chunk(data, key) == decrypt_blowfish_cbc(data, key)

\* ------------------------------------------------------------------------
\* Bounds of the model and the inputs it draws
\* ------------------------------------------------------------------------

\* the longest input holds MaxBlocks whole blocks and a partial one
MaxBlocks == 4

\* the length of a final partial block
TailLen == 500

MaxLen == MaxBlocks * BLOCK_SIZE + TailLen

\* the input lengths: 0 .. MaxBlocks whole blocks, without and with a tail
Lens == {b * BLOCK_SIZE + t : b \in 0..MaxBlocks, t \in {0, TailLen}}

Ids == {"", "3135556", "test_song_id"}

\* Input contents.  "ramp" repeats the same 2048 bytes in every block,
\* "mix" differs from block to block, "rampmix" is "ramp" in block 0 and
\* "mix" in every other block.
Patterns == {"ramp", "mix", "rampmix"}

Ramp(q) == q % 256

Mix(q) == (7 * q + 13 * (q \div BLOCK_SIZE) + 5) % 256

\* the byte at zero-based offset q of the input with contents pat
DataByte(pat, q) ==
    CASE pat = "ramp" -> Ramp(q)
      [] pat = "mix" -> Mix(q)
      [] pat = "rampmix" -> IF q < BLOCK_SIZE THEN Ramp(q) ELSE Mix(q)

\* the bytes at the zero-based offsets from .. to-1
DataSlice(pat, from, to) == [i \in 1..(to - from) |-> DataByte(pat, from + i - 1)]

\* What a source may return for one read into the 2048-byte buffer.
Readers == {"byte", "full", "short"}

\* reads into a buffer of two blocks
ReadSizesTwoBlocks(reader) ==
    CASE reader = "byte" -> {1}
      [] reader = "full" -> {2 * BLOCK_SIZE}
      [] reader = "short" -> {TailLen, BLOCK_SIZE - 1, 2 * BLOCK_SIZE}

ReadSizes(reader) ==
    CASE reader = "byte" -> {1}
      [] reader = "full" -> {BLOCK_SIZE}
      [] reader = "short" -> {TailLen, BLOCK_SIZE - 1, BLOCK_SIZE}

Paths == {"a", "b"}

OtherPath(path) == IF path = "a" THEN "b" ELSE "a"

\* an output path holds no file, or a file left by an earlier run
NoFile == [exists |-> FALSE, bytes |-> <<>>]

StaleFile == [exists |-> TRUE, bytes |-> <<1, 2, 3>>]

\* the lengths of the data handed to decrypt_blowfish_chunk directly:
\* 0 .. MaxChunkLen bytes, and a whole block
MaxChunkLen == 17

ChunkLens == (0..MaxChunkLen) \cup {BLOCK_SIZE}

\* byte strings of a given length, for AES keys and nonces
SomeBytes(n, seed) == [i \in 1..n |-> (seed + 17 * i) % 256]

AesKeys == {SomeBytes(n, 1) : n \in {0, 15, 16, 17}} \cup {SomeBytes(16, 2)}

AesNonces == {SomeBytes(n, 101) : n \in {0, 15, 16, 17}} \cup {SomeBytes(16, 102)}

AesDataLens == {0, 1, 15, 16, 17, TailLen, BLOCK_SIZE, 3 * BLOCK_SIZE + TailLen}

\* Option<String>: None, or Some(str) with str a sequence of ASCII characters
None == [some |-> FALSE, str |-> <<>>]

Some(str) == [some |-> TRUE, str |-> str]

Upper(str) == [k \in 1..Len(str) |-> IF str[k] \in 97..102 THEN str[k] - 32 ELSE str[k]]

\* hexadecimal strings for a key or a nonce: 16 bytes in lower and in upper
\* case, 15 and 17 bytes, the empty string, an odd number of characters, and
\* a character that is no hexadecimal digit
HexStrings(seed) ==
    {HexEncode(SomeBytes(16, seed)), Upper(HexEncode(SomeBytes(16, seed + 1))),
     HexEncode(SomeBytes(15, seed)), HexEncode(SomeBytes(17, seed)), <<>>,
     SubSeq(HexEncode(SomeBytes(16, seed)), 1, 31),
     <<103>> \o SubSeq(HexEncode(SomeBytes(16, seed)), 2, 32)}

KeyOpts == {None} \cup {Some(str) : str \in HexStrings(1)}

NonceOpts == {None} \cup {Some(str) : str \in HexStrings(101)}

EncTypes == {"aes", "blowfish", "", "AES"}

\* EncryptionParams: every key and nonce with the "aes" tag, a few with the
\* other tags
FileParams ==
    [encryption_type : {"aes"}, track_id : {"3135556"}, md5_origin : {None},
     key : KeyOpts, nonce : NonceOpts]
    \cup
    [encryption_type : EncTypes \ {"aes"}, track_id : Ids,
     md5_origin : {None, Some(<<97, 98>>)},
     key : {None, Some(HexEncode(SomeBytes(16, 1)))},
     nonce : {None, Some(HexEncode(SomeBytes(15, 101)))}]

NoParams ==
    [encryption_type |-> "", track_id |-> "", md5_origin |-> None, key |-> None,
     nonce |-> None]

FilePats == {"mix"}

FileLens == {0, TailLen, BLOCK_SIZE, 3 * BLOCK_SIZE + TailLen}

\* ------------------------------------------------------------------------
\* AES-CTR
\* ------------------------------------------------------------------------

\* the result of a call: Ok(value) or Err(DeezerError::<kind>(msg))
Ok(value) == [kind |-> "Ok", msg |-> "", value |-> value]

CryptoError(msg) == [kind |-> "CryptoError", msg |-> msg, value |-> <<>>]

\* The keystream byte at zero-based offset q of Ctr128BE<Aes128> under
\* key and nonce (aes and ctr crates): a function of the key, the nonce and
\* the offset.
Keystream(aes_key, nonce, q) ==
    (5 * aes_key[(q % 16) + 1] + 3 * nonce[((q + 7) % 16) + 1] + 11 * (q \div 16) + q) % 256

\* the keystream of a cipher that is kept from one call to the next
apply_keystream_carry(data, aes_key, nonce) ==
    [p \in 1..Len(data) |->
        Xor(data[p], Keystream(aes_key, nonce, calls_done * Len(data) + p - 1))]

\* cipher.apply_keystream(&mut result): every byte is XORed with the keystream
apply_keystream(data, aes_key, nonce) ==
    [p \in 1..Len(data) |-> Xor(data[p], Keystream(aes_key, nonce, p - 1))]

\* the length checks with < in place of !=
decrypt_aes_ctr_min_len(data, aes_key, nonce) ==
    IF Len(aes_key) < AES_KEY_LEN
    THEN [result |-> CryptoError("Invalid AES key length"), cipher |-> FALSE]
    ELSE IF Len(nonce) < AES_NONCE_LEN
    THEN [result |-> CryptoError("Invalid nonce length"), cipher |-> FALSE]
    ELSE [result |-> Ok(apply_keystream(data, aes_key, nonce)), cipher |-> TRUE]

\* decrypt_aes_ctr: the result, and whether a cipher was constructed
decrypt_aes_ctr(data, aes_key, nonce) ==
    IF Len(aes_key) /= AES_KEY_LEN
    THEN [result |-> CryptoError("Invalid AES key length"), cipher |-> FALSE]
    ELSE IF Len(nonce) /= AES_NONCE_LEN
    THEN [result |-> CryptoError("Invalid nonce length"), cipher |-> FALSE]
    ELSE [result |-> Ok(apply_keystream(data, aes_key, nonce)), cipher |-> TRUE]

\* ------------------------------------------------------------------------
\* The harness and the files
\* ------------------------------------------------------------------------

NoArgs ==
    [fn |-> "none", song_id |-> "", pat |-> "ramp", len |-> 0, path |-> "a",
     reader |-> "full", aes_key |-> <<>>, nonce |-> <<>>, params |-> NoParams]

\* a file opened without truncation
FileCreateNoTruncate(files, path) == [files EXCEPT ![path].exists = TRUE]

\* File::create: the file exists and is empty
FileCreate(files, path) == [files EXCEPT ![path] = [exists |-> TRUE, bytes |-> <<>>]]

\* write_all at the file position pos
WriteAt(bytes, pos, data) ==
    SubSeq(bytes, 1, pos) \o data \o SubSeq(bytes, pos + Len(data) + 1, Len(bytes))

\* every write at the start of the file
FileWriteAtStart(files, path, pos, data) ==
    [files EXCEPT ![path].bytes = WriteAt(@, 0, data)]

FileWrite(files, path, pos, data) ==
    [files EXCEPT ![path].bytes = WriteAt(@, pos, data)]

\* FlacAnalysis as line 329 makes it
NoAnalysis ==
    [file_size |-> 0, has_flac_signature |-> FALSE, metadata_blocks |-> <<>>,
     potential_issues |-> <<>>]

\* the concurrent invocations
Procs == {1, 2}

\* an invocation that has not been made
NoInvocation ==
    [pc |-> "none", fn |-> "none", song_id |-> "", pat |-> "ramp", len |-> 0,
     reader |-> "full", path |-> "a", key |-> <<>>, block_count |-> 0, next_chunk |-> 0,
     cursor |-> 0, accumulated |-> <<>>, src_pos |-> 0, processed |-> <<>>]

\* a call that has not returned
NoResult == [kind |-> "none", msg |-> "", value |-> <<>>]

\* Err(DeezerError::<kind>(msg))
Err(kind, msg) == [kind |-> kind, msg |-> msg, value |-> <<>>]

\* The Deezloader as new() makes it (deezloader.rs line 148: the default
\* quality is Mp3_128), with no find_media_url running
NoMedia ==
    [pc |-> "idle", preferred_quality |-> "Mp3_128", qualities |-> <<>>, requests |-> <<>>,
     result |-> NoResult]

\* no batch download running
NoBatch ==
    [pc |-> "idle", fn |-> "none", fetched |-> FALSE, tracks |-> <<>>, idx |-> 0,
     successful |-> <<>>, failed |-> <<>>, result |-> NoResult]

\* no call has been made
InitCalls ==
    /\ pc = "idle"
    /\ calls_done = 0
    /\ args = NoArgs
    /\ first = NoArgs
    /\ ret = <<>>
    /\ track_key = <<>>
    /\ block_count = 0
    /\ cursor = 0
    /\ accumulated = <<>>
    /\ src_pos = 0
    /\ bf_calls = {}
    /\ ciphers = 0
    /\ decrypted = <<>>
    /\ analysis = NoAnalysis
    /\ inv = [p \in Procs |-> NoInvocation]
    /\ media = NoMedia
    /\ batch = NoBatch

\* path "a" holds a file of an earlier run, path "b" no file
Init ==
    /\ fs = [p \in Paths |-> IF p = "a" THEN StaleFile ELSE NoFile]
    /\ InitCalls

\* the call returns: the harness is "idle" again, the result is recorded
Return(result) ==
    /\ pc' = "idle"
    /\ calls_done' = calls_done + 1
    /\ ret' = Append(ret, result)
    /\ first' = IF calls_done = 0 THEN args' ELSE first

\* ------------------------------------------------------------------------
\* calc_blowfish_key and decrypt_blowfish_chunk, called directly
\* ------------------------------------------------------------------------

\* calc_blowfish_key(song_id); the second call repeats the first
CallCalcBlowfishKey ==
    /\ pc = "idle" /\ calls_done < 2
    /\ \E song_id \in Ids :
           /\ calls_done = 1 => (first.fn = "calc_blowfish_key" /\ song_id = first.song_id)
           /\ args' = [NoArgs EXCEPT !.fn = "calc_blowfish_key", !.song_id = song_id]
           /\ Return(Ok(calc_blowfish_key(song_id)))
    /\ UNCHANGED <<fs, track_key, block_count, cursor, accumulated, src_pos, bf_calls, ciphers, decrypted>>
    /\ UNCHANGED <<analysis, inv, media, batch>>

\* decrypt_blowfish_chunk(data, key) on len bytes, with a derived key
CallDecryptBlowfishChunk ==
    /\ pc = "idle" /\ calls_done = 0
    /\ \E song_id \in Ids, pat \in Patterns, len \in ChunkLens :
           /\ args' = [NoArgs EXCEPT !.fn = "decrypt_blowfish_chunk", !.song_id = song_id,
                                     !.pat = pat, !.len = len]
           /\ Return(Ok(decrypt_blowfish_chunk(DataSlice(pat, 0, len),
                                               calc_blowfish_key(song_id))))
    /\ UNCHANGED <<fs, track_key, block_count, cursor, accumulated, src_pos, bf_calls, ciphers, decrypted>>
    /\ UNCHANGED <<analysis, inv, media, batch>>

\* ------------------------------------------------------------------------
\* decrypt_aes_ctr, called directly
\* ------------------------------------------------------------------------

AesCall(data, pat, len, aes_key, nonce) ==
    LET r == decrypt_aes_ctr(data, aes_key, nonce)
    IN /\ args' = [NoArgs EXCEPT !.fn = "decrypt_aes_ctr", !.pat = pat, !.len = len,
                                 !.aes_key = aes_key, !.nonce = nonce]
       /\ ciphers' = ciphers + (IF r.cipher THEN 1 ELSE 0)
       /\ Return(r.result)

\* decrypt_aes_ctr(data, key, nonce)
CallDecryptAesCtr ==
    /\ pc = "idle" /\ calls_done = 0
    /\ \E pat \in Patterns, len \in AesDataLens, aes_key \in AesKeys, nonce \in AesNonces :
           AesCall(DataSlice(pat, 0, len), pat, len, aes_key, nonce)
    /\ UNCHANGED <<fs, track_key, block_count, cursor, accumulated, src_pos, bf_calls, decrypted>>
    /\ UNCHANGED <<analysis, inv, media, batch>>

\* decrypt_aes_ctr on the data the first call returned, same key and nonce
CallDecryptAesCtrAgain ==
    /\ pc = "idle" /\ calls_done = 1
    /\ first.fn = "decrypt_aes_ctr" /\ ret[1].kind = "Ok"
    /\ AesCall(ret[1].value, first.pat, first.len, first.aes_key, first.nonce)
    /\ UNCHANGED <<fs, track_key, block_count, cursor, accumulated, src_pos, bf_calls, decrypted>>
    /\ UNCHANGED <<analysis, inv, media, batch>>

\* ------------------------------------------------------------------------
\* decrypt_track
\* ------------------------------------------------------------------------

\* lines 155-165: the key is derived, the output file created
TrackEnter(call) ==
    /\ args' = call
    /\ track_key' = calc_blowfish_key(call.song_id)
    /\ fs' = FileCreate(fs, call.path)
    /\ cursor' = 0
    /\ block_count' = 0
    /\ pc' = "track_loop"

\* the first call: decrypt_track(encrypted_data, song_id, output_path)
CallDecryptTrack ==
    /\ pc = "idle" /\ calls_done = 0
    /\ \E song_id \in Ids, pat \in Patterns, len \in Lens, path \in Paths :
           TrackEnter([NoArgs EXCEPT !.fn = "decrypt_track", !.song_id = song_id,
                                     !.pat = pat, !.len = len, !.path = path])
    /\ UNCHANGED <<calls_done, first, ret, accumulated, src_pos, bf_calls, ciphers, decrypted>>
    /\ UNCHANGED <<analysis, inv, media, batch>>

\* a second call of decrypt_track, to the other path: on the bytes the
\* source of the first call yielded, on a buffer of the same length with
\* other contents, or on the data and the track_id given to decrypt_file
CallDecryptTrackAgain ==
    /\ pc = "idle" /\ calls_done = 1 /\ ret[1].kind = "Ok"
    /\ \/ /\ first.fn = "decrypt_track_streaming"
          /\ TrackEnter([NoArgs EXCEPT !.fn = "decrypt_track", !.song_id = first.song_id,
                                       !.pat = first.pat, !.len = first.len,
                                       !.path = OtherPath(first.path)])
       \/ /\ first.fn = "decrypt_track"
          /\ \E pat \in Patterns \ {first.pat} :
                 TrackEnter([NoArgs EXCEPT !.fn = "decrypt_track",
                                           !.song_id = first.song_id, !.pat = pat,
                                           !.len = first.len,
                                           !.path = OtherPath(first.path)])
       \/ /\ first.fn = "decrypt_file"
          /\ TrackEnter([NoArgs EXCEPT !.fn = "decrypt_track",
                                       !.song_id = first.params.track_id,
                                       !.pat = first.pat, !.len = first.len,
                                       !.path = OtherPath(first.path)])
    /\ UNCHANGED <<calls_done, first, ret, accumulated, src_pos, bf_calls, ciphers, decrypted>>
    /\ UNCHANGED <<analysis, inv, media, batch>>

\* the selection without the length test
TrackSelectsAnyLength(index, chunk_len) == index % 3 = 0

\* the condition of line 168
TrackSelects(index, chunk_len) == index % 3 = 0 /\ chunk_len = BLOCK_SIZE

\* one iteration of the loop of lines 167-179
TrackChunk ==
    /\ pc = "track_loop"
    /\ block_count * BLOCK_SIZE < args.len
    /\ LET from == block_count * BLOCK_SIZE
           chunk == DataSlice(args.pat, from, Min(from + BLOCK_SIZE, args.len))
           selected == TrackSelects(block_count, Len(chunk))
           processed == IF selected THEN decrypt_blowfish_chunk(chunk, track_key) ELSE chunk
       IN /\ fs' = FileWrite(fs, args.path, cursor, processed)
          /\ cursor' = cursor + Len(processed)
          /\ bf_calls' = IF selected
                         THEN bf_calls \cup {<<args.path, block_count, Len(chunk)>>}
                         ELSE bf_calls
    /\ block_count' = block_count + 1
    /\ UNCHANGED <<pc, calls_done, args, first, ret, track_key, accumulated, src_pos, ciphers,
                   decrypted>>
    /\ UNCHANGED <<analysis, inv, media, batch>>

\* the loop is over: Ok(())
TrackReturn ==
    /\ pc = "track_loop"
    /\ block_count * BLOCK_SIZE >= args.len
    /\ args' = args
    /\ Return(Ok(<<>>))
    /\ UNCHANGED <<fs, track_key, block_count, cursor, accumulated, src_pos, bf_calls, ciphers, decrypted>>
    /\ UNCHANGED <<analysis, inv, media, batch>>

\* ------------------------------------------------------------------------
\* decrypt_track_streaming
\* ------------------------------------------------------------------------

\* lines 203-208: the key, the output file, block_count and accumulated
StreamEnter(song_id, pat, reader) ==
    /\ args' = [NoArgs EXCEPT !.fn = "decrypt_track_streaming", !.song_id = song_id,
                              !.pat = pat, !.reader = reader]
    /\ track_key' = calc_blowfish_key(song_id)
    /\ fs' = FileCreate(fs, "a")
    /\ cursor' = 0
    /\ block_count' = 0
    /\ accumulated' = <<>>
    /\ src_pos' = 0
    /\ pc' = "stream_read"

\* decrypt_track_streaming(reader, song_id, output_path)
CallDecryptTrackStreaming ==
    /\ pc = "idle" /\ calls_done = 0
    /\ \E song_id \in Ids, pat \in Patterns, reader \in Readers :
           StreamEnter(song_id, pat, reader)
    /\ UNCHANGED <<calls_done, first, ret, bf_calls, ciphers, decrypted>>
    /\ UNCHANGED <<analysis, inv, media, batch>>

\* reader.read(&mut buffer) returns n > 0 bytes (lines 211-216); the source
\* holds at most MaxLen bytes
StreamRead ==
    /\ pc = "stream_read"
    /\ \E size \in ReadSizes(args.reader) :
          LET n == Min(size, MaxLen - src_pos)
          IN /\ n > 0
             /\ accumulated' = accumulated \o DataSlice(args.pat, src_pos, src_pos + n)
             /\ src_pos' = src_pos + n
             /\ pc' = IF Len(accumulated) + n >= BLOCK_SIZE
                      THEN "stream_process" ELSE "stream_read"
    /\ UNCHANGED <<fs, calls_done, args, first, ret, track_key, block_count, cursor, bf_calls,
                   ciphers, decrypted>>
    /\ UNCHANGED <<analysis, inv, media, batch>>

\* a read of 0 bytes skipped (continue in place of break): the loop reads again
StreamEofSkipped ==
    /\ pc = "stream_read"
    /\ src_pos \in Lens
    /\ pc' = "stream_read"
    /\ UNCHANGED <<fs, calls_done, args, first, ret, track_key, block_count, cursor, accumulated,
                   src_pos, bf_calls, ciphers, decrypted>>
    /\ UNCHANGED <<analysis, inv, media, batch>>

\* reader.read returns 0: the source is exhausted (lines 212-214); the
\* source ends at one of the lengths of Lens
StreamEof ==
    /\ pc = "stream_read"
    /\ src_pos \in Lens
    /\ args' = [args EXCEPT !.len = src_pos]
    /\ pc' = "stream_tail"
    /\ UNCHANGED <<fs, calls_done, first, ret, track_key, block_count, cursor, accumulated,
                   src_pos, bf_calls, ciphers, decrypted>>
    /\ UNCHANGED <<analysis, inv, media, batch>>

\* the selection on the incremented index
StreamSelectsIncremented(index) == (index + 1) % 3 = 0

\* the condition of line 222
StreamSelects(index) == index % 3 = 0

\* one iteration of the loop of lines 219-230
StreamProcess ==
    /\ pc = "stream_process"
    /\ Len(accumulated) >= BLOCK_SIZE
    /\ LET block == SubSeq(accumulated, 1, BLOCK_SIZE)
           rest == SubSeq(accumulated, BLOCK_SIZE + 1, Len(accumulated))
           selected == StreamSelects(block_count)
           processed == IF selected THEN decrypt_blowfish_chunk(block, track_key) ELSE block
       IN /\ accumulated' = rest
          /\ fs' = FileWrite(fs, args.path, cursor, processed)
          /\ cursor' = cursor + Len(processed)
          /\ bf_calls' = IF selected
                         THEN bf_calls \cup {<<args.path, block_count, Len(block)>>}
                         ELSE bf_calls
          /\ pc' = IF Len(rest) >= BLOCK_SIZE THEN "stream_process" ELSE "stream_read"
    /\ block_count' = block_count + 1
    /\ UNCHANGED <<calls_done, args, first, ret, track_key, src_pos, ciphers, decrypted>>
    /\ UNCHANGED <<analysis, inv, media, batch>>

\* the rest of accumulated put through the selection of the whole blocks
StreamTailDecrypts ==
    /\ pc = "stream_tail"
    /\ IF accumulated /= <<>>
       THEN /\ fs' = FileWrite(fs, args.path, cursor,
                               IF StreamSelects(block_count)
                               THEN decrypt_blowfish_chunk(accumulated, track_key)
                               ELSE accumulated)
            /\ cursor' = cursor + Len(accumulated)
       ELSE UNCHANGED <<fs, cursor>>
    /\ args' = args
    /\ Return(Ok(<<>>))
    /\ UNCHANGED <<track_key, block_count, accumulated, src_pos, bf_calls, ciphers, decrypted>>
    /\ UNCHANGED <<analysis, inv, media, batch>>

\* lines 233-239: the rest of accumulated is written as it is, Ok(())
StreamTail ==
    /\ pc = "stream_tail"
    /\ IF accumulated /= <<>>
       THEN /\ fs' = FileWrite(fs, args.path, cursor, accumulated)
            /\ cursor' = cursor + Len(accumulated)
       ELSE UNCHANGED <<fs, cursor>>
    /\ args' = args
    /\ Return(Ok(<<>>))
    /\ UNCHANGED <<track_key, block_count, accumulated, src_pos, bf_calls, ciphers, decrypted>>
    /\ UNCHANGED <<analysis, inv, media, batch>>

\* ------------------------------------------------------------------------
\* decrypt_file
\* ------------------------------------------------------------------------

\* the "aes" arm with an absent nonce read as the empty string
AesArmNoMissingNonce(data, params) ==
    IF ~params.key.some
    THEN [result |-> CryptoError("Missing AES key"), cipher |-> FALSE]
    ELSE IF ~HexDecode(params.key.str).ok
    THEN [result |-> CryptoError("Invalid key hex"), cipher |-> FALSE]
    ELSE IF ~HexDecode(params.nonce.str).ok
    THEN [result |-> CryptoError("Invalid nonce hex"), cipher |-> FALSE]
    ELSE decrypt_aes_ctr(data, HexDecode(params.key.str).bytes,
                         HexDecode(params.nonce.str).bytes)

\* lines 296-310 of the "aes" arm: the key and the nonce are taken, decoded
\* and handed to decrypt_aes_ctr; the result, and whether a cipher was made
AesArm(data, params) ==
    IF ~params.key.some
    THEN [result |-> CryptoError("Missing AES key"), cipher |-> FALSE]
    ELSE IF ~params.nonce.some
    THEN [result |-> CryptoError("Missing AES nonce"), cipher |-> FALSE]
    ELSE IF ~HexDecode(params.key.str).ok
    THEN [result |-> CryptoError("Invalid key hex"), cipher |-> FALSE]
    ELSE IF ~HexDecode(params.nonce.str).ok
    THEN [result |-> CryptoError("Invalid nonce hex"), cipher |-> FALSE]
    ELSE decrypt_aes_ctr(data, HexDecode(params.key.str).bytes,
                         HexDecode(params.nonce.str).bytes)

\* the "aes" arm with the output file created before the data are decrypted
FileAesEnterCreateFirst(params, pat, len, path) ==
    LET r == AesArm(DataSlice(pat, 0, len), params)
    IN /\ args' = [NoArgs EXCEPT !.fn = "decrypt_file", !.pat = pat, !.len = len,
                                 !.path = path, !.params = params]
       /\ fs' = FileCreate(fs, path)
       /\ ciphers' = ciphers + (IF r.cipher THEN 1 ELSE 0)
       /\ IF r.result.kind = "Ok"
          THEN /\ decrypted' = r.result.value
               /\ pc' = "file_write"
               /\ UNCHANGED <<calls_done, first, ret>>
          ELSE /\ Return(r.result)
               /\ UNCHANGED decrypted
       /\ UNCHANGED <<track_key, block_count, cursor>>

\* The "aes" arm up to line 310: it returns its error, or holds the
\* decrypted data and goes on to write them; the output file is untouched.
FileAesEnter(params, pat, len, path) ==
    LET r == AesArm(DataSlice(pat, 0, len), params)
    IN /\ args' = [NoArgs EXCEPT !.fn = "decrypt_file", !.pat = pat, !.len = len,
                                 !.path = path, !.params = params]
       /\ ciphers' = ciphers + (IF r.cipher THEN 1 ELSE 0)
       /\ IF r.result.kind = "Ok"
          THEN /\ decrypted' = r.result.value
               /\ pc' = "file_write"
               /\ UNCHANGED <<calls_done, first, ret>>
          ELSE /\ Return(r.result)
               /\ UNCHANGED decrypted
       /\ UNCHANGED <<fs, track_key, block_count, cursor>>

\* the "aes" arm also taken for the tag in upper case
FileIsAesAnyCase(encryption_type) == encryption_type \in {"aes", "AES"}

\* the match of line 294: the arm "aes" is taken for exactly that string
FileIsAes(encryption_type) == encryption_type = "aes"

\* decrypt_file(encrypted_data, params, output_path): the match of line 294;
\* every tag other than "aes" is decrypt_track with params.track_id.
CallDecryptFile ==
    /\ pc = "idle" /\ calls_done = 0
    /\ \E params \in FileParams, pat \in FilePats, len \in FileLens, path \in Paths :
          IF FileIsAes(params.encryption_type)
          THEN FileAesEnter(params, pat, len, path)
          ELSE /\ TrackEnter([NoArgs EXCEPT !.fn = "decrypt_file",
                                             !.song_id = params.track_id, !.pat = pat,
                                             !.len = len, !.path = path,
                                             !.params = params])
               /\ UNCHANGED <<calls_done, first, ret, ciphers, decrypted>>
    /\ UNCHANGED <<accumulated, src_pos, bf_calls>>
    /\ UNCHANGED <<analysis, inv, media, batch>>

\* lines 312-316: the output file is created, the decrypted data written
FileWriteDecrypted ==
    /\ pc = "file_write"
    /\ fs' = FileWrite(FileCreate(fs, args.path), args.path, 0, decrypted)
    /\ cursor' = Len(decrypted)
    /\ args' = args
    /\ Return(Ok(<<>>))
    /\ UNCHANGED <<track_key, block_count, accumulated, src_pos, bf_calls, ciphers, decrypted>>
    /\ UNCHANGED <<analysis, inv, media, batch>>

Next ==
    \/ CallDecryptFile
    \/ FileWriteDecrypted
    \/ CallCalcBlowfishKey
    \/ CallDecryptBlowfishChunk
    \/ CallDecryptAesCtr
    \/ CallDecryptAesCtrAgain
    \/ CallDecryptTrack
    \/ CallDecryptTrackAgain
    \/ TrackChunk
    \/ TrackReturn
    \/ CallDecryptTrackStreaming
    \/ StreamRead
    \/ StreamEof
    \/ StreamProcess
    \/ StreamTail

Spec == Init /\ [][Next]_vars

\* ------------------------------------------------------------------------
\* I/O failures of decrypt_track and decrypt_track_streaming
\* ------------------------------------------------------------------------

\* DeezerError::IoError, made from the std::io::Error by the ? operator;
\* msg names the operation that failed
IoError(msg) == [kind |-> "IoError", msg |-> msg, value |-> <<>>]

\* how many bytes of a buffer write_all has written when it fails
PartialWrites == {0, 1000}

\* the readers of the runs in which an operation may fail
BlockReaders == {"full", "short"}

\* decrypt_track_streaming on a source that yields blocks and parts of blocks
CallDecryptTrackStreamingBlocks ==
    /\ pc = "idle" /\ calls_done = 0
    /\ \E song_id \in Ids, pat \in Patterns, reader \in BlockReaders :
           StreamEnter(song_id, pat, reader)
    /\ UNCHANGED <<calls_done, first, ret, bf_calls, ciphers, decrypted>>
    /\ UNCHANGED <<analysis, inv, media, batch>>

\* File::create(output_path)? fails (lines 164, 205): the call returns the
\* error, nothing was read or written
CreateFails ==
    /\ pc = "idle" /\ calls_done = 0
    /\ \E fn \in {"decrypt_track", "decrypt_track_streaming"}, song_id \in Ids,
          pat \in Patterns, path \in Paths :
           args' = [NoArgs EXCEPT !.fn = fn, !.song_id = song_id, !.pat = pat,
                                  !.len = IF fn = "decrypt_track" THEN MaxLen ELSE 0,
                                  !.path = IF fn = "decrypt_track" THEN path ELSE "a"]
    /\ track_key' = calc_blowfish_key(args'.song_id)
    /\ Return(IoError("create"))
    /\ UNCHANGED <<fs, block_count, cursor, accumulated, src_pos, bf_calls, ciphers, decrypted>>
    /\ UNCHANGED <<analysis, inv, media, batch>>

\* the failing write_all with the output file emptied
WriteFailedTruncates(files, path, pos, data, n) == FileCreate(files, path)

\* write_all fails after n bytes of data (lines 177, 228, 236): the n bytes
\* are in the file, and what was written before stays
WriteFailed(files, path, pos, data, n) == FileWrite(files, path, pos, SubSeq(data, 1, n))

\* output.write_all(&processed)? fails in decrypt_track (line 177) after n
\* bytes of the chunk: the call returns the error
TrackWriteFails ==
    /\ pc = "track_loop"
    /\ block_count * BLOCK_SIZE < args.len
    /\ LET from == block_count * BLOCK_SIZE
           chunk == DataSlice(args.pat, from, Min(from + BLOCK_SIZE, args.len))
           selected == TrackSelects(block_count, Len(chunk))
           processed == IF selected THEN decrypt_blowfish_chunk(chunk, track_key) ELSE chunk
       IN /\ \E n \in PartialWrites :
                 /\ n < Len(processed)
                 /\ fs' = WriteFailed(fs, args.path, cursor, processed, n)
                 /\ cursor' = cursor + n
          /\ bf_calls' = IF selected
                         THEN bf_calls \cup {<<args.path, block_count, Len(chunk)>>}
                         ELSE bf_calls
    /\ args' = args
    /\ Return(IoError("write"))
    /\ UNCHANGED <<track_key, block_count, accumulated, src_pos, ciphers, decrypted>>
    /\ UNCHANGED <<analysis, inv, media, batch>>

\* reader.read(&mut buffer)? fails (line 211): the call returns the error
StreamReadFails ==
    /\ pc = "stream_read"
    /\ src_pos < MaxLen
    /\ args' = args
    /\ Return(IoError("read"))
    /\ UNCHANGED <<fs, track_key, block_count, cursor, accumulated, src_pos, bf_calls, ciphers,
                   decrypted>>
    /\ UNCHANGED <<analysis, inv, media, batch>>

\* output.write_all(&processed)? fails in the loop of decrypt_track_streaming
\* (line 228) after n bytes of the block drained from accumulated
StreamWriteFails ==
    /\ pc = "stream_process"
    /\ Len(accumulated) >= BLOCK_SIZE
    /\ LET block == SubSeq(accumulated, 1, BLOCK_SIZE)
           selected == StreamSelects(block_count)
           processed == IF selected THEN decrypt_blowfish_chunk(block, track_key) ELSE block
       IN /\ accumulated' = SubSeq(accumulated, BLOCK_SIZE + 1, Len(accumulated))
          /\ \E n \in PartialWrites :
                 /\ n < Len(processed)
                 /\ fs' = WriteFailed(fs, args.path, cursor, processed, n)
                 /\ cursor' = cursor + n
          /\ bf_calls' = IF selected
                         THEN bf_calls \cup {<<args.path, block_count, Len(block)>>}
                         ELSE bf_calls
    /\ args' = args
    /\ Return(IoError("write"))
    /\ UNCHANGED <<track_key, block_count, src_pos, ciphers, decrypted>>
    /\ UNCHANGED <<analysis, inv, media, batch>>

\* output.write_all(&accumulated)? fails (line 236) after n bytes of the rest
StreamTailWriteFails ==
    /\ pc = "stream_tail"
    /\ \E n \in PartialWrites :
           /\ n < Len(accumulated)
           /\ fs' = WriteFailed(fs, args.path, cursor, accumulated, n)
           /\ cursor' = cursor + n
    /\ args' = args
    /\ Return(IoError("write"))
    /\ UNCHANGED <<track_key, block_count, accumulated, src_pos, bf_calls, ciphers, decrypted>>
    /\ UNCHANGED <<analysis, inv, media, batch>>

NextIo ==
    \/ CallDecryptTrack
    \/ TrackChunk
    \/ TrackReturn
    \/ CallDecryptTrackStreamingBlocks
    \/ StreamRead
    \/ StreamEof
    \/ StreamProcess
    \/ StreamTail
    \/ CreateFails
    \/ TrackWriteFails
    \/ StreamReadFails
    \/ StreamWriteFails
    \/ StreamTailWriteFails

SpecIo == Init /\ [][NextIo]_vars

\* ------------------------------------------------------------------------
\* A run of decrypt_track_streaming to its end
\* ------------------------------------------------------------------------

\* The sources yield blocks and parts of blocks.
NextStream ==
    \/ CallDecryptTrackStreamingBlocks
    \/ StreamRead
    \/ StreamEof
    \/ StreamProcess
    \/ StreamTail

\* one pass of the loop of lines 219-230, told by what it does to block_count;
\* whether it can be taken is decided by pc alone
StreamBlockStep == pc = "stream_process" /\ block_count' = block_count + 1

\* The call is made and the thread that runs it is never suspended for good:
\* reader.read returns (a source that blocks for ever is no source that
\* signals exhaustion), and the loop body, the writes and the return are plain
\* sequential code.
SpecStream ==
    /\ Init /\ [][NextStream]_vars
    /\ WF_vars(CallDecryptTrackStreamingBlocks \/ StreamRead \/ StreamEof \/ StreamTail)
    /\ WF_block_count(StreamBlockStep)

\* ------------------------------------------------------------------------
\* analyze_flac_file
\* ------------------------------------------------------------------------

\* b"fLaC"
FLAC_SIGNATURE == <<102, 76, 97, 67>>

\* the size below which the file is not looked into (line 336)
MIN_FLAC_SIZE == 8

\* the scan given up only beyond twice as many descriptors
MetadataBlocksDoubled == 100 + 100

\* the number of descriptors beyond which the scan is given up (line 384)
MAX_METADATA_BLOCKS == 100

\* read_exact of n bytes at position pos succeeds
ReadExactOk(bytes, pos, n) == pos + n <= Len(bytes)

\* no file is too small to be looked into
TooSmallNever(file_size) == FALSE

\* only a file shorter than the signature is not looked into
TooSmallBelowSignature(file_size) == file_size < 4

\* line 336
TooSmall(file_size) == file_size < MIN_FLAC_SIZE

\* the signature recognised by its first byte
IsFlacSignatureFirstByte(header) == header[1] = 102

\* line 346: &header == b"fLaC"
IsFlacSignature(header) == header = FLAC_SIGNATURE

\* no block is taken for the last one
BlockIsLastNever(block_header) == FALSE

\* line 362: (block_header[0] & 0x80) != 0
BlockIsLast(block_header) == block_header[1] >= 128

\* the first byte of the header taken whole
BlockTypeUnmasked(block_header) == block_header[1]

\* line 363: block_header[0] & 0x7F
BlockType(block_header) == block_header[1] % 128

\* the three length bytes read with the lowest byte first
BlockLengthLittleEndian(block_header) ==
    block_header[2] + block_header[3] * 256 + block_header[4] * 65536

\* lines 364-366: the 24-bit big-endian length
BlockLength(block_header) ==
    block_header[2] * 65536 + block_header[3] * 256 + block_header[4]

PushIssue(a, issue) == [a EXCEPT !.potential_issues = Append(@, issue)]

\* analyze_flac_file(file_path) up to the loop: the file is opened, its size
\* taken, the signature read and compared (lines 325-353)
CallAnalyzeFlacFile ==
    /\ pc = "idle" /\ calls_done = 0
    /\ \E path \in Paths :
          /\ args' = [NoArgs EXCEPT !.fn = "analyze_flac_file", !.path = path]
          /\ IF ~fs[path].exists
             THEN /\ Return(IoError("open"))
                  /\ UNCHANGED <<analysis, cursor>>
             ELSE LET bytes == fs[path].bytes
                      start == [NoAnalysis EXCEPT !.file_size = Len(bytes)]
                  IN IF TooSmall(Len(bytes))
                     THEN /\ analysis' = PushIssue(start, "File too small to be a valid FLAC")
                          /\ cursor' = 0
                          /\ Return(Ok(analysis'))
                     ELSE IF ~ReadExactOk(bytes, 0, 4)
                     THEN /\ analysis' = start
                          /\ cursor' = Len(bytes)
                          /\ Return(IoError("read"))
                     ELSE IF ~IsFlacSignature(SubSeq(bytes, 1, 4))
                     THEN /\ analysis' = PushIssue(start, "Missing FLAC signature")
                          /\ cursor' = 4
                          /\ Return(Ok(analysis'))
                     ELSE /\ analysis' = [start EXCEPT !.has_flac_signature = TRUE]
                          /\ cursor' = 4
                          /\ pc' = "flac_loop"
                          /\ UNCHANGED <<calls_done, first, ret>>
    /\ UNCHANGED <<fs, track_key, block_count, accumulated, src_pos, bf_calls, ciphers, decrypted,
                   inv, media, batch>>

\* one iteration of the loop of lines 356-390
AnalyzeBlock ==
    /\ pc = "flac_loop"
    /\ LET bytes == fs[args.path].bytes
       IN IF ~ReadExactOk(bytes, cursor, 4)
          THEN /\ analysis' = analysis
               /\ cursor' = Len(bytes)
               /\ pc' = "flac_validate"
          ELSE LET block_header == SubSeq(bytes, cursor + 1, cursor + 4)
                   block == [block_type |-> BlockType(block_header),
                             length |-> BlockLength(block_header),
                             is_last |-> BlockIsLast(block_header)]
                   pushed == [analysis EXCEPT !.metadata_blocks = Append(@, block)]
               IN IF ~ReadExactOk(bytes, cursor + 4, block.length)
                  THEN /\ analysis' = pushed
                       /\ cursor' = Len(bytes)
                       /\ pc' = "flac_validate"
                  ELSE /\ cursor' = cursor + 4 + block.length
                       /\ IF block.is_last
                          THEN analysis' = pushed /\ pc' = "flac_validate"
                          ELSE IF Len(pushed.metadata_blocks) > MAX_METADATA_BLOCKS
                          THEN /\ analysis' = PushIssue(pushed,
                                       "Too many metadata blocks (possible corruption)")
                               /\ pc' = "flac_validate"
                          ELSE analysis' = pushed /\ pc' = "flac_loop"
    /\ UNCHANGED <<fs, calls_done, args, first, ret, track_key, block_count, accumulated,
                   src_pos, bf_calls, ciphers, decrypted, inv, media, batch>>

\* the validation that looks for the STREAMINFO block in the first place only
AnalyzeValidateFirstBlock ==
    /\ pc = "flac_validate"
    /\ analysis' =
           IF analysis.metadata_blocks = <<>>
           THEN PushIssue(analysis, "No metadata blocks found")
           ELSE IF analysis.metadata_blocks[1].block_type /= 0
           THEN PushIssue(analysis, "Missing STREAMINFO block")
           ELSE analysis
    /\ args' = args
    /\ Return(Ok(analysis'))
    /\ UNCHANGED <<fs, track_key, block_count, cursor, accumulated, src_pos, bf_calls, ciphers,
                   decrypted, inv, media, batch>>

\* lines 393-403: the structure is validated, Ok(analysis)
AnalyzeValidate ==
    /\ pc = "flac_validate"
    /\ analysis' =
           IF analysis.metadata_blocks = <<>>
           THEN PushIssue(analysis, "No metadata blocks found")
           ELSE IF ~\E k \in 1..Len(analysis.metadata_blocks) :
                       analysis.metadata_blocks[k].block_type = 0
           THEN PushIssue(analysis, "Missing STREAMINFO block")
           ELSE analysis
    /\ args' = args
    /\ Return(Ok(analysis'))
    /\ UNCHANGED <<fs, track_key, block_count, cursor, accumulated, src_pos, bf_calls, ciphers,
                   decrypted, inv, media, batch>>

\* The files handed to analyze_flac_file.

\* the longest chain of metadata blocks in a file
MaxChain == 103

\* the longest payload of a metadata block
MaxPayload == 65794

Payload(n) == [i \in 1..n |-> (37 * i) % 251]

BlockHeader(type, len, last) ==
    <<(IF last THEN 128 ELSE 0) + type, len \div 65536, (len \div 256) % 256, len % 256>>

FlacBlock(type, len, last) == BlockHeader(type, len, last) \o Payload(len)

\* n blocks of the given type with no payload, none flagged last
EmptyBlocks(n, type) == [q \in 1..(4 * n) |-> BlockHeader(type, 0, FALSE)[((q - 1) % 4) + 1]]

\* the first bytes of an audio frame
AudioBytes == <<255, 248, 201, 24, 0>>

Prefixes(bytes) == {SubSeq(bytes, 1, n) : n \in 0..Len(bytes)}

\* the signature with one of its bytes changed
WrongSignatures ==
    {[FLAC_SIGNATURE EXCEPT ![k] = 70] : k \in 1..4} \cup {<<79, 103, 103, 83>>}

\* the three length bytes of a block header
LengthBytes == {<<0, 0, 0>>, <<1, 2, 3>>, <<128, 0, 1>>, <<255, 255, 255>>}

\* the signature and one block header: every first byte, each of LengthBytes
HeaderFiles ==
    {FLAC_SIGNATURE \o <<b0>> \o len3 : b0 \in 0..255, len3 \in LengthBytes}

FlacFiles ==
    \* every prefix of a file of two blocks followed by audio
    Prefixes(FLAC_SIGNATURE \o FlacBlock(0, 3, FALSE) \o FlacBlock(1, 2, TRUE) \o AudioBytes)
    \* a wrong signature alone, and followed by a well-formed chain
    \cup WrongSignatures
    \cup {sig \o FlacBlock(0, 34, TRUE) \o AudioBytes : sig \in WrongSignatures}
    \* a single block, type 0 or not, flagged last or not
    \cup {FLAC_SIGNATURE \o FlacBlock(type, len, last) \o tail :
              type \in {0, 4, 127}, len \in {0, 34, 300}, last \in BOOLEAN,
              tail \in {<<>>, AudioBytes}}
    \cup {FLAC_SIGNATURE \o FlacBlock(0, MaxPayload, TRUE),
          FLAC_SIGNATURE \o BlockHeader(0, MaxPayload, TRUE) \o Payload(300)}
    \* chains without a block flagged last, with and without a block of type 0
    \cup {FLAC_SIGNATURE \o EmptyBlocks(n, type) \o tail :
              n \in {2, MAX_METADATA_BLOCKS - 1, MAX_METADATA_BLOCKS,
                     MAX_METADATA_BLOCKS + 1, MaxChain},
              type \in {0, 1}, tail \in {<<>>, <<1, 0>>}}
    \* chains closed by a block flagged last
    \cup {FLAC_SIGNATURE \o EmptyBlocks(n, 1) \o FlacBlock(0, 34, TRUE) \o AudioBytes :
              n \in {1, MAX_METADATA_BLOCKS - 1, MAX_METADATA_BLOCKS,
                     MAX_METADATA_BLOCKS + 1}}
    \* a chain whose block number 101 lacks a part of its payload
    \cup {FLAC_SIGNATURE \o EmptyBlocks(MAX_METADATA_BLOCKS, 1)
              \o BlockHeader(0, 34, FALSE) \o Payload(10)}
    \cup HeaderFiles

\* path "a" holds one of the files, path "b" no file
InitFlac ==
    /\ \E bytes \in FlacFiles :
           fs = [p \in Paths |-> IF p = "a" THEN [exists |-> TRUE, bytes |-> bytes]
                                 ELSE NoFile]
    /\ InitCalls

NextFlac ==
    \/ CallAnalyzeFlacFile
    \/ AnalyzeBlock
    \/ AnalyzeValidate

SpecFlac == InitFlac /\ [][NextFlac]_vars

\* ------------------------------------------------------------------------
\* Concurrent invocations of decrypt_track and decrypt_track_streaming
\* ------------------------------------------------------------------------

\* Each invocation has its track, its data and its output path.
ParSongId(p) == IF p = 1 THEN "3135556" ELSE "test_song_id"

ParPattern(p) == IF p = 1 THEN "mix" ELSE "rampmix"

ParPath(p) == IF p = 1 THEN "a" ELSE "b"

ParLens == {BLOCK_SIZE + TailLen, MaxBlocks * BLOCK_SIZE}

\* the sources of the concurrent invocations fill the buffer at every read
ParReaders == {"full"}

\* one counter for all invocations
CounterShared(p) == 1

\* let mut block_count = 0 (lines 165, 207) is a local of the call: the
\* counter that invocation p reads and increments is its own
CounterOf(p) == p

\* the invocation starts: the key is derived, the output file created, the
\* locals initialised (lines 155-165, 203-208)
ParCall(p) ==
    /\ inv[p].pc = "none"
    /\ \E fn \in {"decrypt_track", "decrypt_track_streaming"}, len \in ParLens,
          reader \in ParReaders :
           /\ inv' = [inv EXCEPT
                        ![p] = [NoInvocation EXCEPT
                                  !.pc = IF fn = "decrypt_track" THEN "track_loop"
                                         ELSE "stream_read",
                                  !.fn = fn, !.song_id = ParSongId(p),
                                  !.pat = ParPattern(p), !.len = len, !.reader = reader,
                                  !.path = ParPath(p),
                                  !.key = calc_blowfish_key(ParSongId(p))],
                        ![CounterOf(p)].block_count = 0]
    /\ fs' = FileCreate(fs, ParPath(p))
    /\ UNCHANGED <<pc, calls_done, args, first, ret, track_key, block_count, cursor, accumulated,
                   src_pos, bf_calls, ciphers, decrypted, analysis, media, batch>>

\* decrypt_track, lines 167-175: the next chunk is taken and transformed
ParTrackTransform(p) ==
    /\ inv[p].pc = "track_loop"
    /\ inv[p].next_chunk * BLOCK_SIZE < inv[p].len
    /\ LET from == inv[p].next_chunk * BLOCK_SIZE
           chunk == DataSlice(inv[p].pat, from, Min(from + BLOCK_SIZE, inv[p].len))
       IN inv' = [inv EXCEPT
                    ![p].processed =
                        IF TrackSelects(inv[CounterOf(p)].block_count, Len(chunk))
                        THEN decrypt_blowfish_chunk(chunk, inv[p].key) ELSE chunk,
                    ![p].pc = "track_write"]
    /\ UNCHANGED <<fs, pc, calls_done, args, first, ret, track_key, block_count, cursor,
                   accumulated, src_pos, bf_calls, ciphers, decrypted, analysis, media, batch>>

\* decrypt_track, lines 177-178: the chunk is written, block_count += 1
ParTrackWrite(p) ==
    /\ inv[p].pc = "track_write"
    /\ fs' = FileWrite(fs, inv[p].path, inv[p].cursor, inv[p].processed)
    /\ inv' = [inv EXCEPT ![p].cursor = @ + Len(inv[p].processed),
                          ![p].next_chunk = @ + 1,
                          ![p].pc = "track_loop",
                          ![CounterOf(p)].block_count = @ + 1]
    /\ UNCHANGED <<pc, calls_done, args, first, ret, track_key, block_count, cursor, accumulated,
                   src_pos, bf_calls, ciphers, decrypted, analysis, media, batch>>

\* decrypt_track: the chunks are exhausted, Ok(())
ParTrackReturn(p) ==
    /\ inv[p].pc = "track_loop"
    /\ inv[p].next_chunk * BLOCK_SIZE >= inv[p].len
    /\ inv' = [inv EXCEPT ![p].pc = "done"]
    /\ UNCHANGED <<fs, pc, calls_done, args, first, ret, track_key, block_count, cursor,
                   accumulated, src_pos, bf_calls, ciphers, decrypted, analysis, media, batch>>

\* decrypt_track_streaming, lines 211-216: a read of n > 0 bytes
ParStreamRead(p) ==
    /\ inv[p].pc = "stream_read"
    /\ \E size \in ReadSizes(inv[p].reader) :
          LET n == Min(size, inv[p].len - inv[p].src_pos)
          IN /\ n > 0
             /\ inv' = [inv EXCEPT
                          ![p].accumulated =
                              @ \o DataSlice(inv[p].pat, inv[p].src_pos, inv[p].src_pos + n),
                          ![p].src_pos = @ + n,
                          ![p].pc = IF Len(inv[p].accumulated) + n >= BLOCK_SIZE
                                    THEN "stream_process" ELSE "stream_read"]
    /\ UNCHANGED <<fs, pc, calls_done, args, first, ret, track_key, block_count, cursor,
                   accumulated, src_pos, bf_calls, ciphers, decrypted, analysis, media, batch>>

\* decrypt_track_streaming, lines 212-214: the read returns 0
ParStreamEof(p) ==
    /\ inv[p].pc = "stream_read"
    /\ inv[p].src_pos = inv[p].len
    /\ inv' = [inv EXCEPT ![p].pc = "stream_tail"]
    /\ UNCHANGED <<fs, pc, calls_done, args, first, ret, track_key, block_count, cursor,
                   accumulated, src_pos, bf_calls, ciphers, decrypted, analysis, media, batch>>

\* decrypt_track_streaming, lines 219-226: a block is drained and transformed
ParStreamTransform(p) ==
    /\ inv[p].pc = "stream_process"
    /\ LET block == SubSeq(inv[p].accumulated, 1, BLOCK_SIZE)
       IN inv' = [inv EXCEPT
                    ![p].accumulated = SubSeq(@, BLOCK_SIZE + 1, Len(@)),
                    ![p].processed =
                        IF StreamSelects(inv[CounterOf(p)].block_count)
                        THEN decrypt_blowfish_chunk(block, inv[p].key) ELSE block,
                    ![p].pc = "stream_write"]
    /\ UNCHANGED <<fs, pc, calls_done, args, first, ret, track_key, block_count, cursor,
                   accumulated, src_pos, bf_calls, ciphers, decrypted, analysis, media, batch>>

\* decrypt_track_streaming, lines 228-229: the block is written, block_count += 1
ParStreamWrite(p) ==
    /\ inv[p].pc = "stream_write"
    /\ fs' = FileWrite(fs, inv[p].path, inv[p].cursor, inv[p].processed)
    /\ inv' = [inv EXCEPT ![p].cursor = @ + Len(inv[p].processed),
                          ![p].pc = IF Len(inv[p].accumulated) >= BLOCK_SIZE
                                    THEN "stream_process" ELSE "stream_read",
                          ![CounterOf(p)].block_count = @ + 1]
    /\ UNCHANGED <<pc, calls_done, args, first, ret, track_key, block_count, cursor, accumulated,
                   src_pos, bf_calls, ciphers, decrypted, analysis, media, batch>>

\* decrypt_track_streaming, lines 233-239: the rest is written, Ok(())
ParStreamTail(p) ==
    /\ inv[p].pc = "stream_tail"
    /\ fs' = IF inv[p].accumulated /= <<>>
             THEN FileWrite(fs, inv[p].path, inv[p].cursor, inv[p].accumulated)
             ELSE fs
    /\ inv' = [inv EXCEPT ![p].cursor = @ + Len(inv[p].accumulated), ![p].pc = "done"]
    /\ UNCHANGED <<pc, calls_done, args, first, ret, track_key, block_count, cursor, accumulated,
                   src_pos, bf_calls, ciphers, decrypted, analysis, media, batch>>

NextPar ==
    \/ \E p \in Procs : ParCall(p)
    \/ \E p \in Procs : ParTrackTransform(p)
    \/ \E p \in Procs : ParTrackWrite(p)
    \/ \E p \in Procs : ParTrackReturn(p)
    \/ \E p \in Procs : ParStreamRead(p)
    \/ \E p \in Procs : ParStreamEof(p)
    \/ \E p \in Procs : ParStreamTransform(p)
    \/ \E p \in Procs : ParStreamWrite(p)
    \/ \E p \in Procs : ParStreamTail(p)

SpecPar == Init /\ [][NextPar]_vars

\* ------------------------------------------------------------------------
\* Deezloader::find_media_url (src/src/deezloader.rs)
\* ------------------------------------------------------------------------

\* enum DownloadQuality, in the order of DownloadQuality::all()
DownloadQualities == <<"Flac", "Mp3_320", "Mp3_128">>

\* DownloadQuality::format
Format(quality) ==
    CASE quality = "Flac" -> "FLAC"
      [] quality = "Mp3_320" -> "MP3_320"
      [] quality = "Mp3_128" -> "MP3_128"

\* What the media server does with one request: the request fails, the
\* answer carries "errors", carries no "data", or carries data with 0, 1 or
\* 2 sources.
MediaResponses == {"send_error", "errors", "no_data", "no_sources", "one_source", "two_sources"}

MediaUrl(url, format) == [url |-> url, format |-> format, cipher |-> "BF_CBC_STRIPE"]

\* GatewayApi::get_media_url(track_tokens, quality) on the server's response
get_media_url(quality, response) ==
    CASE response = "send_error" -> Err("RequestError", "")
      [] response = "errors" -> Err("NoRightOnMedia", "Unknown error")
      [] response = "no_data" -> Err("NoDataApi", "No media data")
      [] response = "no_sources" -> Ok(<<>>)
      [] response = "one_source" -> Ok(<<MediaUrl("cdn1", quality)>>)
      [] response = "two_sources" -> Ok(<<MediaUrl("cdn1", quality), MediaUrl("cdn2", quality)>>)

\* every quality tried, whatever the preferred one
QualityOrderAll(preferred_quality) == DownloadQualities

\* lines 496-504: the qualities to try, from the preferred one
QualityOrder(preferred_quality) ==
    CASE preferred_quality = "Flac" -> <<"Flac", "Mp3_320", "Mp3_128">>
      [] preferred_quality = "Mp3_320" -> <<"Mp3_320", "Mp3_128">>
      [] preferred_quality = "Mp3_128" -> <<"Mp3_128">>

\* set_quality(quality), lines 157-159
SetQuality ==
    /\ media.pc = "idle"
    /\ \E quality \in {DownloadQualities[k] : k \in 1..Len(DownloadQualities)} :
           media' = [media EXCEPT !.preferred_quality = quality]
    /\ UNCHANGED <<fs, pc, calls_done, args, first, ret, track_key, block_count, cursor,
                   accumulated, src_pos, bf_calls, ciphers, decrypted, analysis, inv, batch>>

\* find_media_url(track_token) is called: the list of lines 496-504 is built
CallFindMediaUrl ==
    /\ media.pc = "idle"
    /\ media' = [media EXCEPT !.pc = "media_loop",
                              !.qualities = QualityOrder(media.preferred_quality)]
    /\ UNCHANGED <<fs, pc, calls_done, args, first, ret, track_key, block_count, cursor,
                   accumulated, src_pos, bf_calls, ciphers, decrypted, analysis, inv, batch>>

\* one pass of the loop of lines 506-516: the next quality is requested; the
\* first URL of a non-empty Ok answer is returned with the quality
MediaRequest ==
    /\ media.pc = "media_loop"
    /\ media.qualities /= <<>>
    /\ \E response \in MediaResponses :
          LET quality == Head(media.qualities)
              answer == get_media_url(Format(quality), response)
              asked == Append(media.requests,
                              [format |-> Format(quality), response |-> response])
          IN IF answer.kind = "Ok" /\ answer.value /= <<>>
             THEN media' = [media EXCEPT !.requests = asked, !.pc = "done",
                                         !.result = Ok(<<Head(answer.value), quality>>)]
             ELSE media' = [media EXCEPT !.requests = asked,
                                         !.qualities = Tail(media.qualities)]
    /\ UNCHANGED <<fs, pc, calls_done, args, first, ret, track_key, block_count, cursor,
                   accumulated, src_pos, bf_calls, ciphers, decrypted, analysis, inv, batch>>

\* lines 518-520: every quality of the list has been tried
MediaExhausted ==
    /\ media.pc = "media_loop"
    /\ media.qualities = <<>>
    /\ media' = [media EXCEPT
                   !.pc = "done",
                   !.result = Err("NoRightOnMedia", "No media URL available for any quality")]
    /\ UNCHANGED <<fs, pc, calls_done, args, first, ret, track_key, block_count, cursor,
                   accumulated, src_pos, bf_calls, ciphers, decrypted, analysis, inv, batch>>

NextMedia ==
    \/ SetQuality
    \/ CallFindMediaUrl
    \/ MediaRequest
    \/ MediaExhausted

SpecMedia == Init /\ [][NextMedia]_vars

\* ------------------------------------------------------------------------
\* Deezloader::download_album_to and download_playlist_to
\* ------------------------------------------------------------------------

\* the longest track list of an album or a playlist
MaxTracks == 3

\* the titles of the tracks, by position in the list
Titles == <<"T1", "T2", "T3", "T4", "T5">>

\* the track at position i of a list: with a Deezer ID (ids.deezer is Some)
\* or without one
TrackAt(i, has_id) ==
    [title |-> Titles[i], artist |-> "A", track_number |-> i,
     deezer |-> IF has_id THEN Some(<<48 + i>>) ELSE None]

\* album.tracks, playlist.tracks: 0 .. MaxTracks tracks, each with or without
\* a Deezer ID
TrackLists ==
    UNION {{[i \in 1..n |-> TrackAt(i, has_id[i])] : has_id \in [1..n -> BOOLEAN]} :
               n \in 0..MaxTracks}

\* what download_album_track / download_playlist_track return for a track:
\* Ok(DownloadResult), or the error e of one of their ? operators, as
\* e.to_string()
TrackOutcomes ==
    {"", "Track not found: Not readable",
     "No rights on media: No media URL available for any quality"}

\* BatchDownloadResult::total (lines 83-85)
total(result) == Len(result.successful) + Len(result.failed)

\* the error of a track ends the whole download
TrackFailedReturns(b, name, msg) ==
    [b EXCEPT !.pc = "done", !.result = Err("TrackError", msg)]

\* lines 417-419, 477-479: result.failed.push((name, e.to_string()))
TrackFailed(b, name, msg) == [b EXCEPT !.failed = Append(@, <<name, msg>>)]

\* lines 376-396, 434-453: the metadata are fetched and the directory is
\* created, each with the ? operator, and result starts empty
CallDownloadBatch ==
    /\ batch.pc = "idle"
    /\ \E fn \in {"download_album_to", "download_playlist_to"}, tracks \in TrackLists,
          outcome \in {"ok", "fetch_error", "dir_error"} :
           batch' =
               CASE outcome = "fetch_error" ->
                      [batch EXCEPT !.fn = fn, !.pc = "done",
                                    !.result = Err("RequestError", "")]
                 [] outcome = "dir_error" ->
                      [batch EXCEPT !.fn = fn, !.pc = "done",
                                    !.result = Err("IoError", "create_dir_all")]
                 [] outcome = "ok" ->
                      [batch EXCEPT !.fn = fn, !.pc = "batch_loop", !.fetched = TRUE,
                                    !.tracks = tracks]
    /\ UNCHANGED <<fs, pc, calls_done, args, first, ret, track_key, block_count, cursor,
                   accumulated, src_pos, bf_calls, ciphers, decrypted, analysis, inv, media>>

\* one pass of the loop of lines 399-421 (album) or 456-481 (playlist)
BatchTrack ==
    /\ batch.pc = "batch_loop"
    /\ batch.idx < Len(batch.tracks)
    /\ LET track == batch.tracks[batch.idx + 1]
           next == [batch EXCEPT !.idx = @ + 1]
       IN IF ~track.deezer.some
          THEN batch' = TrackFailed(next, <<track.title>>, "No track ID")
          ELSE \E e \in TrackOutcomes :
                  IF e = ""
                  THEN batch' =
                           [next EXCEPT
                              !.successful =
                                  Append(@, [title |-> track.title,
                                             position |->
                                                 IF batch.fn = "download_album_to"
                                                 THEN track.track_number
                                                 ELSE batch.idx + 1])]
                  ELSE batch' =
                           TrackFailed(next,
                                       IF batch.fn = "download_album_to"
                                       THEN <<track.title>>
                                       ELSE <<track.artist, " - ", track.title>>,
                                       e)
    /\ UNCHANGED <<fs, pc, calls_done, args, first, ret, track_key, block_count, cursor,
                   accumulated, src_pos, bf_calls, ciphers, decrypted, analysis, inv, media>>

\* lines 423, 483: Ok(result)
BatchReturn ==
    /\ batch.pc = "batch_loop"
    /\ batch.idx = Len(batch.tracks)
    /\ batch' = [batch EXCEPT
                   !.pc = "done",
                   !.result = Ok([successful |-> batch.successful, failed |-> batch.failed])]
    /\ UNCHANGED <<fs, pc, calls_done, args, first, ret, track_key, block_count, cursor,
                   accumulated, src_pos, bf_calls, ciphers, decrypted, analysis, inv, media>>

NextBatch ==
    \/ CallDownloadBatch
    \/ BatchTrack
    \/ BatchReturn

SpecBatch == Init /\ [][NextBatch]_vars

\* ------------------------------------------------------------------------
\* Properties
\* ------------------------------------------------------------------------

\* the last call has returned
Returned(fn) == pc = "idle" /\ calls_done >= 1 /\ args.fn = fn

LastRet == ret[calls_done]

NumChunks(len) == (len + 2047) \div 2048

\* block i of an input of len bytes with contents pat
InBlock(pat, len, i) == DataSlice(pat, 2048 * i, Min(2048 * (i + 1), len))

\* block i of the file at path
OutBlock(path, len, i) == SubSeq(fs[path].bytes, 2048 * i + 1, Min(2048 * (i + 1), len))

BlowfishCalled(path, i) == \E t \in bf_calls : t[1] = path /\ t[2] = i

\* C1: once decrypt_track_streaming has consumed a source, whatever the sizes
\* of its reads, and decrypt_track has decrypted the same bytes with the same
\* track identifier, the two output files hold the same bytes.
StreamingEqualsWhole ==
    (Returned("decrypt_track") /\ calls_done = 2 /\ first.fn = "decrypt_track_streaming")
        => /\ ret[1].kind = "Ok" /\ ret[2].kind = "Ok"
           /\ fs[first.path].bytes = fs[args.path].bytes

StreamingEqualsWholeWitness ==
    /\ Returned("decrypt_track") /\ calls_done = 2
    /\ first.fn = "decrypt_track_streaming" /\ first.reader = "short"
    /\ first.len = 3 * 2048 + 500
    /\ fs[first.path].bytes = fs[args.path].bytes
    /\ fs[first.path].bytes /= DataSlice(first.pat, 0, first.len)

\* C2: when decrypt_track has returned, block i was handed to Blowfish if and
\* only if i is divisible by 3 and the block is 2048 bytes long, and every
\* block not handed to Blowfish is the same in the output as in the input.
BlockSelectionRule ==
    Returned("decrypt_track") =>
        \A i \in 0..(NumChunks(args.len) - 1) :
            /\ BlowfishCalled(args.path, i)
                  <=> (i % 3 = 0 /\ Min(2048, args.len - 2048 * i) = 2048)
            /\ ~BlowfishCalled(args.path, i)
                  => OutBlock(args.path, args.len, i) = InBlock(args.pat, args.len, i)

BlockSelectionRuleWitness ==
    /\ Returned("decrypt_track")
    /\ args.len = 2048 * 3 + 500
    /\ BlowfishCalled(args.path, 0)
    /\ ~BlowfishCalled(args.path, 3)
    /\ SubSeq(fs[args.path].bytes, 2048 * 3 + 1, 2048 * 3 + 500)
           = DataSlice(args.pat, 2048 * 3, 2048 * 3 + 500)
    /\ OutBlock(args.path, args.len, 0) /= InBlock(args.pat, args.len, 0)

\* C3: a call that returned Ok produced as many bytes as it was given:
\* decrypt_track, decrypt_track_streaming and both arms of decrypt_file in the
\* output file, decrypt_aes_ctr in the returned buffer.
SizePreserved ==
    (pc = "idle" /\ calls_done >= 1 /\ LastRet.kind = "Ok") =>
        CASE args.fn \in {"decrypt_track", "decrypt_track_streaming", "decrypt_file"} ->
               fs[args.path].exists /\ Len(fs[args.path].bytes) = args.len
          [] args.fn = "decrypt_aes_ctr" -> Len(LastRet.value) = args.len
          [] OTHER -> TRUE

SizePreservedWitness ==
    /\ Returned("decrypt_file") /\ LastRet.kind = "Ok"
    /\ args.params.encryption_type = "aes"
    /\ args.path = "a"
    /\ args.len = 2048 * 3 + 500
    /\ Len(fs["a"].bytes) = 2048 * 3 + 500

\* C4: after two runs of decrypt_track with the same track identifier, a block
\* that is the same in the two inputs is the same in the two outputs, whatever
\* the other blocks hold; and two whole blocks of one input at indexes
\* divisible by 3 that are equal are equal in the output.
ChainingStaysInBlock ==
    (Returned("decrypt_track") /\ calls_done = 2 /\ first.fn = "decrypt_track") =>
        /\ \A i \in 0..(NumChunks(args.len) - 1) :
               InBlock(first.pat, first.len, i) = InBlock(args.pat, args.len, i)
                   => OutBlock(first.path, first.len, i) = OutBlock(args.path, args.len, i)
        /\ \A i, j \in {n \in 0..(NumChunks(args.len) - 1) :
                            n % 3 = 0 /\ 2048 * (n + 1) <= args.len} :
               InBlock(first.pat, first.len, i) = InBlock(first.pat, first.len, j)
                   => OutBlock(first.path, first.len, i) = OutBlock(first.path, first.len, j)

ChainingStaysInBlockWitness ==
    /\ Returned("decrypt_track") /\ calls_done = 2 /\ first.fn = "decrypt_track"
    /\ first.pat = "ramp" /\ args.pat = "rampmix" /\ args.len = 2048 * 4
    /\ OutBlock(first.path, first.len, 0) = OutBlock(args.path, args.len, 0)
    /\ OutBlock(first.path, first.len, 3) /= OutBlock(args.path, args.len, 3)
    /\ OutBlock(first.path, first.len, 0) = OutBlock(first.path, first.len, 3)
    /\ OutBlock(first.path, first.len, 0) /= InBlock(first.pat, first.len, 0)

\* C5: decrypt_blowfish_chunk returns as many bytes as it was given; whole
\* 8-byte sub-block j of the result is D(c_j) XOR c_(j-1), with c_j the
\* ciphertext of sub-block j and c_(-1) the IV 00 01 02 03 04 05 06 07; the
\* trailing (length mod 8) bytes are those of the input.
CbcOfOriginalCiphertext ==
    Returned("decrypt_blowfish_chunk") =>
        LET data == DataSlice(args.pat, 0, args.len)
            k == calc_blowfish_key(args.song_id)
            out == LastRet.value
            nfull == args.len \div 8
            c(j) == IF j < 0 THEN <<0, 1, 2, 3, 4, 5, 6, 7>>
                    ELSE SubSeq(data, 8 * j + 1, 8 * j + 8)
        IN /\ Len(out) = args.len
           /\ \A j \in 0..(nfull - 1) :
                  SubSeq(out, 8 * j + 1, 8 * j + 8)
                      = [i \in 1..8 |-> XorBits(decrypt_block(k, c(j))[i], c(j - 1)[i], 8)]
           /\ \A p \in (8 * nfull + 1)..args.len : out[p] = data[p]

CbcOfOriginalCiphertextWitness ==
    /\ Returned("decrypt_blowfish_chunk")
    /\ args.len = 17
    /\ LastRet.value[17] = DataByte(args.pat, 16)
    /\ SubSeq(LastRet.value, 9, 16) /= SubSeq(DataSlice(args.pat, 0, 17), 9, 16)

\* C6: calc_blowfish_key returns 16 bytes, key[i] = hex[i] XOR hex[i+16] XOR
\* secret[i], with hex the ASCII text of the 32 lowercase hexadecimal digits
\* of the MD5 digest of the identifier; a repeated call returns the same key.
KeyDerivationFormula ==
    Returned("calc_blowfish_key") =>
        LET digest == Md5Digest(args.song_id)
            digit(n) == IF n < 10 THEN 48 + n ELSE 87 + n
            hex == [k \in 1..32 |->
                       digit(IF k % 2 = 1 THEN digest[(k + 1) \div 2] \div 16
                             ELSE digest[k \div 2] % 16)]
            secret == <<103, 52, 101, 108, 53, 56, 119, 99, 48, 122, 118, 102, 57, 110, 97, 49>>
        IN /\ LastRet.kind = "Ok"
           /\ Len(LastRet.value) = 16
           /\ \A i \in 1..16 :
                  LastRet.value[i] = XorBits(XorBits(hex[i], hex[i + 16], 8), secret[i], 8)
           /\ calls_done = 2 => ret[2] = ret[1]

KeyDerivationFormulaWitness ==
    /\ Returned("calc_blowfish_key") /\ calls_done = 2
    /\ args.song_id = ""
    /\ Len(ret[1].value) = 16
    /\ ret[2].value = ret[1].value
    /\ ret[1].value[1] = XorBits(XorBits(100, 101, 8), 103, 8)

\* C7: decrypt_aes_ctr returns an invalid-parameter error, with no cipher
\* constructed and no data returned, whenever the key or the nonce is not 16
\* bytes long, and returns data when both are 16 bytes long.
AesLengthValidation ==
    (Returned("decrypt_aes_ctr") /\ calls_done = 1) =>
        IF Len(args.aes_key) /= 16 \/ Len(args.nonce) /= 16
        THEN /\ LastRet.kind = "CryptoError"
             /\ LastRet.msg \in {"Invalid AES key length", "Invalid nonce length"}
             /\ LastRet.value = <<>>
             /\ ciphers = 0
        ELSE /\ LastRet.kind = "Ok"
             /\ ciphers = 1

AesLengthValidationWitness ==
    /\ Returned("decrypt_aes_ctr") /\ calls_done = 1
    /\ Len(args.aes_key) = 17 /\ Len(args.nonce) = 16
    /\ args.len = 2048
    /\ LastRet.kind = "CryptoError"
    /\ ciphers = 0

\* C8: decrypt_aes_ctr XORs every byte of the buffer with the keystream, and
\* applied a second time with the same key and nonce to what it returned, it
\* returns the original buffer.
AesRoundTrip ==
    (Returned("decrypt_aes_ctr") /\ ret[1].kind = "Ok") =>
        LET data == DataSlice(first.pat, 0, first.len)
        IN /\ Len(ret[1].value) = first.len
           /\ \A p \in 1..first.len :
                  ret[1].value[p]
                      = XorBits(data[p], Keystream(first.aes_key, first.nonce, p - 1), 8)
           /\ calls_done = 2 => (ret[2].kind = "Ok" /\ ret[2].value = data)

AesRoundTripWitness ==
    /\ Returned("decrypt_aes_ctr") /\ calls_done = 2
    /\ first.len = 3 * 2048 + 500
    /\ ret[2].kind = "Ok"
    /\ ret[2].value = DataSlice(first.pat, 0, first.len)
    /\ SubSeq(ret[1].value, 2049, 4096) /= SubSeq(ret[2].value, 2049, 4096)

\* the files as they were before the first call
FilesAtStart == [p \in Paths |-> IF p = "a" THEN StaleFile ELSE NoFile]

\* C9: when decrypt_file returns the error of an AES key or nonce whose decoded
\* length is not 16, the output file is as it was before the call: neither
\* created, nor truncated, nor written.
AesErrorLeavesOutput ==
    (/\ Returned("decrypt_file") /\ calls_done = 1
     /\ LastRet.kind = "CryptoError"
     /\ LastRet.msg \in {"Invalid AES key length", "Invalid nonce length"})
        => fs = FilesAtStart

AesErrorLeavesOutputWitness ==
    /\ Returned("decrypt_file") /\ calls_done = 1
    /\ args.path = "a"
    /\ LastRet.msg = "Invalid nonce length"
    /\ fs["a"] = StaleFile /\ fs["b"] = NoFile

\* a string of hexadecimal digits, two per byte
IsHex(str) ==
    /\ Len(str) % 2 = 0
    /\ \A k \in 1..Len(str) : str[k] \in (48..57) \cup (97..102) \cup (65..70)

\* the validation failure decrypt_file reports for params, "" for none
ExpectedFailure(params) ==
    IF params.encryption_type /= "aes" THEN ""
    ELSE IF ~params.key.some THEN "Missing AES key"
    ELSE IF ~params.nonce.some THEN "Missing AES nonce"
    ELSE IF ~IsHex(params.key.str) THEN "Invalid key hex"
    ELSE IF ~IsHex(params.nonce.str) THEN "Invalid nonce hex"
    ELSE IF Len(params.key.str) /= 32 THEN "Invalid AES key length"
    ELSE IF Len(params.nonce.str) /= 32 THEN "Invalid nonce length"
    ELSE ""

\* C10, as claimed: decrypt_file fails only with one of the two AES length
\* checks; every other parameter combination is not reported as a failure.
OnlyLengthChecksFail ==
    (Returned("decrypt_file") /\ LastRet.kind /= "Ok")
        => LastRet.msg \in {"Invalid AES key length", "Invalid nonce length"}

\* C10, amended: decrypt_file reports a validation failure exactly under the
\* tag "aes" with a key or nonce that is absent, is not hexadecimal, or decodes
\* to a length other than 16; every other tag takes the Blowfish path and is
\* not reported as a failure.
FileValidationFailures ==
    Returned("decrypt_file") =>
        /\ IF ExpectedFailure(args.params) = ""
           THEN LastRet.kind = "Ok"
           ELSE LastRet.kind = "CryptoError" /\ LastRet.msg = ExpectedFailure(args.params)
        /\ args.params.encryption_type /= "aes" =>
               /\ ciphers = 0
               /\ args.len >= 2048 => BlowfishCalled(args.path, 0)

FileValidationFailuresWitness ==
    /\ Returned("decrypt_file")
    /\ args.params.encryption_type = "aes"
    /\ args.params.key.some /\ args.params.nonce.some
    /\ LastRet.kind = "CryptoError"
    /\ LastRet.msg = "Invalid key hex"

\* C11: with every encryption_type other than exactly "aes", decrypt_file
\* returns what decrypt_track returns on the same data with params.track_id
\* and leaves the same bytes in its output file, whatever the key, nonce and
\* md5_origin fields hold.
FallbackIsDecryptTrack ==
    /\ (Returned("decrypt_file") /\ calls_done = 1 /\ args.params.encryption_type /= "aes")
           => (LastRet = Ok(<<>>) /\ ciphers = 0)
    /\ (/\ Returned("decrypt_track") /\ calls_done = 2
        /\ first.fn = "decrypt_file" /\ first.params.encryption_type /= "aes")
           => /\ ret[2] = ret[1]
              /\ fs[first.path] = fs[args.path]

FallbackIsDecryptTrackWitness ==
    /\ Returned("decrypt_track") /\ calls_done = 2
    /\ first.fn = "decrypt_file" /\ first.params.encryption_type = "AES"
    /\ first.params.key.some /\ first.params.nonce.some /\ first.params.md5_origin.some
    /\ first.len = 3 * 2048 + 500
    /\ fs[first.path] = fs[args.path]
    /\ OutBlock(first.path, first.len, 0) /= InBlock(first.pat, first.len, 0)

\* C12: decrypt_track_streaming hands to Blowfish only blocks of 2048 bytes
\* that the source has yielded in full, and the 1..2047 bytes left at the end
\* of the source are in the output file as they were read, also when the
\* block index reached is divisible by 3.
StreamingDecryptsWholeBlocksOnly ==
    /\ (args.fn = "decrypt_track_streaming" /\ calls_done = 0) =>
           \A t \in bf_calls : t[3] = 2048 /\ 2048 * (t[2] + 1) <= src_pos
    /\ (Returned("decrypt_track_streaming") /\ LastRet.kind = "Ok") =>
           LET whole == args.len \div 2048
           IN /\ ~BlowfishCalled(args.path, whole)
              /\ SubSeq(fs[args.path].bytes, 2048 * whole + 1, args.len)
                     = DataSlice(args.pat, 2048 * whole, args.len)

StreamingDecryptsWholeBlocksOnlyWitness ==
    /\ Returned("decrypt_track_streaming") /\ LastRet.kind = "Ok"
    /\ args.len = 3 * 2048 + 500
    /\ args.reader = "short"
    /\ BlowfishCalled(args.path, 0) /\ BlowfishCalled(args.path, 3) = FALSE
    /\ OutBlock(args.path, args.len, 0) /= InBlock(args.pat, args.len, 0)
    /\ Len(OutBlock(args.path, args.len, 3)) = 500
    /\ OutBlock(args.path, args.len, 3) = InBlock(args.pat, args.len, 3)

\* C13: while decrypt_track_streaming runs, accumulated holds at most 4095
\* bytes, and fewer than 2048 bytes whenever the next step is a read or the
\* end of the source, however long the stream is.
AccumulatorBounded ==
    /\ Len(accumulated) <= 4095
    /\ pc \in {"stream_read", "stream_tail"} => Len(accumulated) < 2048
    /\ pc = "stream_process" => Len(accumulated) >= 2048

AccumulatorBoundedWitness ==
    /\ pc = "stream_process"
    /\ Len(accumulated) = 4095
    /\ src_pos = 3 * 2048 + 2047
    /\ block_count = 2

\* block i of the output of a run on the bytes of pat with the key of song_id
ExpectedBlock(pat, song_id, i) ==
    IF i % 3 = 0
    THEN decrypt_blowfish_cbc(DataSlice(pat, 2048 * i, 2048 * i + 2048),
                              calc_blowfish_key(song_id))
    ELSE DataSlice(pat, 2048 * i, 2048 * i + 2048)

\* C14: when decrypt_track or decrypt_track_streaming has returned an I/O
\* error, nothing was read or written after the failing operation and the
\* blocks written before it are in the output file: a failed File::create
\* leaves the files as they were; otherwise the file holds the block_count
\* processed blocks written in full, followed only by what the failing write
\* wrote of its block, and the source has yielded no byte beyond those the
\* run has accumulated.
IoFailureStopsAtOnce ==
    (pc = "idle" /\ calls_done = 1 /\ LastRet.kind = "IoError") =>
        LET bytes == fs[args.path].bytes
        IN /\ args.fn \in {"decrypt_track", "decrypt_track_streaming"}
           /\ LastRet.msg = "create" => (fs = FilesAtStart /\ src_pos = 0)
           /\ LastRet.msg \in {"read", "write"} =>
                  /\ fs[args.path].exists
                  /\ Len(bytes) >= 2048 * block_count
                  /\ Len(bytes) < 2048 * (block_count + 1)
                  /\ \A i \in 0..(block_count - 1) :
                         SubSeq(bytes, 2048 * i + 1, 2048 * i + 2048)
                             = ExpectedBlock(args.pat, args.song_id, i)
                  /\ fs[OtherPath(args.path)] = FilesAtStart[OtherPath(args.path)]
           /\ LastRet.msg = "read" =>
                  /\ Len(bytes) = 2048 * block_count
                  /\ src_pos = 2048 * block_count + Len(accumulated)
           /\ (LastRet.msg = "write" /\ args.fn = "decrypt_track_streaming") =>
                  src_pos - Len(accumulated) \in {2048 * block_count, 2048 * (block_count + 1)}

IoFailureStopsAtOnceWitness ==
    /\ pc = "idle" /\ calls_done = 1
    /\ LastRet = IoError("write")
    /\ args.fn = "decrypt_track_streaming"
    /\ block_count = 3
    /\ src_pos = 4 * 2048
    /\ Len(fs[args.path].bytes) = 3 * 2048 + 1000
    /\ SubSeq(fs[args.path].bytes, 1, 2048) /= DataSlice(args.pat, 0, 2048)
    /\ SubSeq(fs[args.path].bytes, 2049, 3 * 2048) = DataSlice(args.pat, 2048, 3 * 2048)

\* analyze_flac_file has returned from its call on an existing file
Analyzed == Returned("analyze_flac_file") /\ fs[args.path].exists

\* the file it was called on
TheFile == fs[args.path].bytes

\* the report it returned
Report == LastRet.value

HasSignature(bytes) == Len(bytes) >= 4 /\ SubSeq(bytes, 1, 4) = <<102, 76, 97, 67>>

\* C15: for a file of at least four bytes whose first four bytes are not
\* "fLaC", a file of exactly four bytes included, analyze_flac_file returns Ok
\* with has_flac_signature = false and at least one entry in potential_issues.
WrongSignatureReported ==
    (Analyzed /\ Len(TheFile) >= 4 /\ ~HasSignature(TheFile)) =>
        /\ LastRet.kind = "Ok"
        /\ Report.has_flac_signature = FALSE
        /\ Report.potential_issues /= <<>>

WrongSignatureReportedWitness ==
    /\ Analyzed
    /\ TheFile = <<102, 76, 97, 70>>
    /\ LastRet.kind = "Ok"
    /\ Report.has_flac_signature = FALSE
    /\ Len(Report.potential_issues) = 1

\* C16: for a file that is "fLaC", then one block header of type 0 with the
\* last flag, then at least the declared number of payload bytes,
\* analyze_flac_file reports the signature, the one descriptor (0, declared
\* length, last) and no issue.
SingleStreamInfoIsClean ==
    (/\ Analyzed /\ HasSignature(TheFile) /\ Len(TheFile) >= 8
     /\ TheFile[5] = 128
     /\ Len(TheFile) >= 8 + TheFile[6] * 65536 + TheFile[7] * 256 + TheFile[8])
        => /\ LastRet.kind = "Ok"
           /\ Report.has_flac_signature = TRUE
           /\ Report.metadata_blocks
                  = <<[block_type |-> 0,
                       length |-> TheFile[6] * 65536 + TheFile[7] * 256 + TheFile[8],
                       is_last |-> TRUE]>>
           /\ Report.potential_issues = <<>>

SingleStreamInfoIsCleanWitness ==
    /\ Analyzed /\ HasSignature(TheFile)
    /\ Len(TheFile) = 8 + 300
    /\ TheFile[5] = 128
    /\ Len(Report.metadata_blocks) = 1
    /\ Report.metadata_blocks[1] = [block_type |-> 0, length |-> 300, is_last |-> TRUE]
    /\ Report.potential_issues = <<>>

\* C17, as claimed: for a file of at least four bytes, has_flac_signature is
\* true if and only if the first four bytes are "fLaC".
SignatureFlagTellsSignature ==
    (Analyzed /\ LastRet.kind = "Ok" /\ Len(TheFile) >= 4) =>
        (Report.has_flac_signature <=> HasSignature(TheFile))

\* The chain of metadata blocks of a file, walked from position pos: whether
\* a block flagged last was reached with its payload in the file, and how
\* many block headers were read on the way (the walk is given up after 101).
RECURSIVE ChainWalk(_, _, _)
ChainWalk(bytes, pos, count) ==
    IF count > 100 \/ pos + 4 > Len(bytes)
    THEN [closed |-> FALSE, count |-> count]
    ELSE LET declared == bytes[pos + 2] * 65536 + bytes[pos + 3] * 256 + bytes[pos + 4]
         IN IF pos + 4 + declared > Len(bytes)
            THEN [closed |-> FALSE, count |-> count + 1]
            ELSE IF bytes[pos + 1] >= 128
            THEN [closed |-> TRUE, count |-> count + 1]
            ELSE ChainWalk(bytes, pos + 4 + declared, count + 1)

\* the file lacks the signature, or its chain ends before a block flagged
\* last is complete, or holds more than 100 blocks
StructuralAnomaly(bytes) ==
    \/ ~HasSignature(bytes)
    \/ ~ChainWalk(bytes, 4, 0).closed
    \/ ChainWalk(bytes, 4, 0).count > 100

\* C18, as claimed: whenever the file lacks the signature or its chain of
\* metadata blocks is malformed or excessive, potential_issues is not empty.
AnomaliesSurfaced ==
    (Analyzed /\ LastRet.kind = "Ok" /\ StructuralAnomaly(TheFile)) =>
        Report.potential_issues /= <<>>

\* C19: analyze_flac_file leaves the file as it is, and on every file that
\* exists it returns Ok with a report that carries the size of the file.
NeverFailsNeverWrites ==
    /\ [](Analyzed => (LastRet.kind = "Ok" /\ Report.file_size = Len(TheFile)))
    /\ [][fs' = fs]_vars

NeverFailsNeverWritesWitness ==
    /\ Analyzed /\ LastRet.kind = "Ok"
    /\ Len(TheFile) = 4 + 4 * 103 + 2
    /\ Len(Report.metadata_blocks) = 101
    /\ Report.potential_issues = <<"Too many metadata blocks (possible corruption)">>

\* C20: when invocations of decrypt_track and decrypt_track_streaming for
\* different tracks and different output paths run interleaved, step by step
\* in any order, the file of an invocation that has returned holds what a run
\* of that invocation alone writes: the blocks at indexes divisible by 3
\* decrypted with the key of its track, every other byte as in its input.
ParallelRunsAreIndependent ==
    \A p \in Procs :
        inv[p].pc = "done" =>
            /\ Len(fs[inv[p].path].bytes) = inv[p].len
            /\ \A i \in 0..(NumChunks(inv[p].len) - 1) :
                   OutBlock(inv[p].path, inv[p].len, i)
                       = IF 2048 * (i + 1) <= inv[p].len
                         THEN ExpectedBlock(inv[p].pat, inv[p].song_id, i)
                         ELSE InBlock(inv[p].pat, inv[p].len, i)

ParallelRunsAreIndependentWitness ==
    /\ inv[1].pc = "done" /\ inv[2].pc = "done"
    /\ inv[1].fn = "decrypt_track" /\ inv[2].fn = "decrypt_track_streaming"
    /\ inv[1].len = 4 * 2048 /\ inv[2].len = 2048 + 500
    /\ inv[1].block_count = 4 /\ inv[2].block_count = 1
    /\ OutBlock("a", 4 * 2048, 3) /= InBlock("mix", 4 * 2048, 3)
    /\ OutBlock("b", 2048 + 500, 0) /= InBlock("rampmix", 2048 + 500, 0)
    /\ OutBlock("b", 2048 + 500, 1) = InBlock("rampmix", 2048 + 500, 1)

\* decrypt_track_streaming is between its File::create and its return
StreamRunning ==
    args.fn = "decrypt_track_streaming" /\ pc \in {"stream_read", "stream_process", "stream_tail"}

IsPrefix(s, t) == Len(s) <= Len(t) /\ SubSeq(t, 1, Len(s)) = s

\* C21: in decrypt_track_streaming, once a read has been processed the output
\* file holds 2048 * floor(bytes read / 2048) = 2048 * block_count bytes; every
\* step that handles a block appends block number block_count of the source,
\* transformed, to the file and adds one to block_count; and no step of the
\* run changes a byte already in the file, so that the file is at every
\* moment a prefix of the final output.
SinkGrowsBlockByBlock ==
    /\ []((StreamRunning /\ pc \in {"stream_read", "stream_tail"}) =>
              /\ Len(fs[args.path].bytes) = 2048 * (src_pos \div 2048)
              /\ Len(fs[args.path].bytes) = 2048 * block_count
              /\ cursor = Len(fs[args.path].bytes))
    /\ [][(StreamRunning /\ pc = "stream_process") =>
              /\ block_count' = block_count + 1
              /\ 2048 * block_count' <= src_pos
              /\ fs'[args.path].bytes
                     = fs[args.path].bytes \o ExpectedBlock(args.pat, args.song_id, block_count)]_vars
    /\ [][StreamRunning =>
              /\ IsPrefix(fs[args.path].bytes, fs'[args.path].bytes)
              /\ pc /= "stream_process" =>
                     (block_count' = block_count
                      /\ (pc' /= "idle" => fs'[args.path].bytes = fs[args.path].bytes))]_vars

SinkGrowsBlockByBlockWitness ==
    /\ StreamRunning /\ pc = "stream_read"
    /\ args.reader = "short"
    /\ src_pos = 3 * 2048 + 500
    /\ block_count = 3
    /\ Len(fs[args.path].bytes) = 3 * 2048
    /\ SubSeq(fs[args.path].bytes, 1, 2048) /= DataSlice(args.pat, 0, 2048)
    /\ SubSeq(fs[args.path].bytes, 2049, 3 * 2048) = DataSlice(args.pat, 2048, 3 * 2048)

\* C22: decrypt_track_streaming returns on every source that yields finitely
\* many bytes and then a read of 0 bytes; the first read of 0 bytes ends the
\* reading (the next step is the return, and nothing more is taken from the
\* source); and when it has returned Ok, every byte the source yielded is in
\* the output file, the rest of accumulated included.
StreamingTerminates ==
    /\ <>(Returned("decrypt_track_streaming") /\ LastRet.kind = "Ok")
    /\ [][(StreamRunning /\ pc = "stream_read" /\ src_pos' = src_pos /\ vars' /= vars)
              => pc' = "stream_tail"]_vars
    /\ [][pc = "stream_tail" => (pc' = "idle" /\ src_pos' = src_pos)]_vars
    /\ []((Returned("decrypt_track_streaming") /\ LastRet.kind = "Ok") =>
              /\ Len(fs[args.path].bytes) = src_pos
              /\ cursor = src_pos
              /\ Len(accumulated) = src_pos % 2048
              /\ SubSeq(fs[args.path].bytes, src_pos - Len(accumulated) + 1, src_pos)
                     = accumulated)

StreamingTerminatesWitness ==
    /\ Returned("decrypt_track_streaming") /\ LastRet.kind = "Ok"
    /\ args.reader = "short"
    /\ src_pos = 2 * 2048 + 500
    /\ Len(accumulated) = 500
    /\ Len(fs[args.path].bytes) = 2 * 2048 + 500
    /\ block_count = 2

\* the bytes that the blocks lo .. hi-1 take in the file, headers included
\* (summed by halving the range)
RECURSIVE ChainSpan(_, _, _)
ChainSpan(blocks, lo, hi) ==
    IF hi <= lo THEN 0
    ELSE IF hi = lo + 1 THEN 4 + blocks[lo].length
    ELSE ChainSpan(blocks, lo, (lo + hi) \div 2) + ChainSpan(blocks, (lo + hi) \div 2, hi)

\* the offset in the file of the header of block k, given the descriptors
\* before it: 4 for the first, then after the declared payload of each block
HeaderOffset(blocks, k) == 4 + ChainSpan(blocks, 1, k)

\* the descriptor that the four bytes of the file at offset pos stand for
DescriptorAt(bytes, pos) ==
    [block_type |-> bytes[pos + 1] % 128,
     length |-> bytes[pos + 2] * 65536 + bytes[pos + 3] * 256 + bytes[pos + 4],
     is_last |-> bytes[pos + 1] >= 128]

\* C23: in every report of analyze_flac_file, descriptor k is the one of the
\* four header bytes found at offset 4 for k = 1 and, for k > 1, right after
\* the declared payload of block k-1; no descriptor but the final one has
\* is_last = true; and while the scan goes on, the file position is the
\* offset of the next header.
DescriptorsFollowTheChain ==
    /\ (Analyzed /\ LastRet.kind = "Ok") =>
           LET blocks == Report.metadata_blocks
           IN /\ \A k \in 1..Len(blocks) :
                     /\ HeaderOffset(blocks, k) + 4 <= Len(TheFile)
                     /\ blocks[k] = DescriptorAt(TheFile, HeaderOffset(blocks, k))
              /\ \A k \in 1..(Len(blocks) - 1) : ~blocks[k].is_last
    /\ pc = "flac_loop" =>
           /\ cursor = HeaderOffset(analysis.metadata_blocks, Len(analysis.metadata_blocks) + 1)
           /\ \A k \in 1..Len(analysis.metadata_blocks) : ~analysis.metadata_blocks[k].is_last

DescriptorsFollowTheChainWitness ==
    /\ Analyzed /\ LastRet.kind = "Ok"
    /\ Len(TheFile) = 4 + 7 + 6 + 5
    /\ Report.metadata_blocks
           = <<[block_type |-> 0, length |-> 3, is_last |-> FALSE],
               [block_type |-> 1, length |-> 2, is_last |-> TRUE]>>
    /\ cursor = 4 + 7 + 6

\* C24: no report of analyze_flac_file holds more than 101 descriptors; a
\* report holds the finding "Too many metadata blocks" exactly when it holds
\* 101 descriptors, the payload of block 101 is in the file and block 101 is
\* not flagged last; and the scan is then given up where block 101 ends,
\* whatever follows in the file.
ScanIsBounded ==
    (Analyzed /\ LastRet.kind = "Ok") =>
        LET blocks == Report.metadata_blocks
            found == \E q \in 1..Len(Report.potential_issues) :
                         Report.potential_issues[q]
                             = "Too many metadata blocks (possible corruption)"
        IN /\ Len(blocks) <= 101
           /\ found <=> (/\ Len(blocks) = 101
                         /\ ~blocks[101].is_last
                         /\ HeaderOffset(blocks, 102) <= Len(TheFile))
           /\ found => cursor = HeaderOffset(blocks, 102)

ScanIsBoundedWitness ==
    /\ Analyzed /\ LastRet.kind = "Ok"
    /\ Len(TheFile) = 4 + 4 * 103
    /\ Len(Report.metadata_blocks) = 101
    /\ Report.metadata_blocks[101].block_type = 0
    /\ cursor = 4 + 4 * 101
    /\ Report.potential_issues = <<"Too many metadata blocks (possible corruption)">>

\* C25: every descriptor of a report is the decoding of its header bytes
\* b0 b1 b2 b3: is_last = (b0 >= 128), block_type = b0 mod 128, in 0..127,
\* length = 65536 * b1 + 256 * b2 + b3, in 0..2^24 - 1, and
\* b0 = 128 * is_last + block_type.
HeaderDecoding ==
    (Analyzed /\ LastRet.kind = "Ok") =>
        \A k \in 1..Len(Report.metadata_blocks) :
            LET d == Report.metadata_blocks[k]
                pos == HeaderOffset(Report.metadata_blocks, k)
                b0 == TheFile[pos + 1]
                b1 == TheFile[pos + 2]
                b2 == TheFile[pos + 3]
                b3 == TheFile[pos + 4]
            IN /\ d.is_last = (b0 >= 128)
               /\ d.block_type = b0 % 128
               /\ d.block_type \in 0..127
               /\ d.length = 65536 * b1 + 256 * b2 + b3
               /\ d.length \in 0..(16777216 - 1)
               /\ b0 = 128 * (IF d.is_last THEN 1 ELSE 0) + d.block_type

HeaderDecodingWitness ==
    /\ Analyzed /\ LastRet.kind = "Ok"
    /\ TheFile = <<102, 76, 97, 67, 255, 1, 2, 3>>
    /\ Report.metadata_blocks = <<[block_type |-> 127, length |-> 66051, is_last |-> TRUE]>>

HasIssue(report, issue) ==
    \E q \in 1..Len(report.potential_issues) : report.potential_issues[q] = issue

\* C26: a report with the signature flag and at least one descriptor holds the
\* finding "Missing STREAMINFO block" if and only if none of its descriptors
\* has block type 0, that is, no header of the scanned chain has a first byte
\* of 0 or 128; the place of the type-0 block in the chain does not matter.
StreamInfoFinding ==
    (/\ Analyzed /\ LastRet.kind = "Ok"
     /\ Report.has_flac_signature /\ Report.metadata_blocks /= <<>>) =>
        LET blocks == Report.metadata_blocks
        IN /\ HasIssue(Report, "Missing STREAMINFO block")
                  <=> (\A k \in 1..Len(blocks) : blocks[k].block_type /= 0)
           /\ HasIssue(Report, "Missing STREAMINFO block")
                  <=> (\A k \in 1..Len(blocks) :
                           TheFile[HeaderOffset(blocks, k) + 1] \notin {0, 128})

StreamInfoFindingWitness ==
    /\ Analyzed /\ LastRet.kind = "Ok"
    /\ Len(Report.metadata_blocks) = 100
    /\ Report.metadata_blocks[1].block_type = 1
    /\ Report.metadata_blocks[99].block_type = 1
    /\ Report.metadata_blocks[100] = [block_type |-> 0, length |-> 34, is_last |-> TRUE]
    /\ Report.potential_issues = <<>>

\* C30: for a file of at least 8 bytes that begins with "fLaC", the report
\* holds at least one descriptor, the first being that of the bytes 5..8 of
\* the file also when the payload they declare is not in the file; and no
\* report of any file holds the finding "No metadata blocks found".
FirstHeaderAlwaysRecorded ==
    (Analyzed /\ LastRet.kind = "Ok") =>
        /\ ~HasIssue(Report, "No metadata blocks found")
        /\ (HasSignature(TheFile) /\ Len(TheFile) >= 8) =>
               /\ Len(Report.metadata_blocks) >= 1
               /\ Report.metadata_blocks[1] = DescriptorAt(TheFile, 4)

FirstHeaderAlwaysRecordedWitness ==
    /\ Analyzed /\ LastRet.kind = "Ok"
    /\ TheFile = <<102, 76, 97, 67, 4, 255, 255, 255>>
    /\ Report.metadata_blocks
           = <<[block_type |-> 4, length |-> 16777215, is_last |-> FALSE]>>
    /\ Report.potential_issues = <<"Missing STREAMINFO block">>

\* C27: decrypt_track has no failure of its own.  The key it derives, also
\* for the empty identifier, is 16 bytes long, a length the Blowfish key setup
\* accepts; it returns Ok or an I/O error and nothing else; Ok with the whole
\* input in the output file, whatever the length of the input, 0 included;
\* the error of a failed File::create with the files as they were; and the
\* error of a failed write with the output file short of the input.
BlowfishPathNeverFailsItself ==
    /\ (pc /= "idle" \/ calls_done > 0) =>
           (Len(track_key) = 16 /\ BlowfishKeySetupOk(track_key))
    /\ Returned("decrypt_track") =>
           /\ LastRet.kind \in {"Ok", "IoError"}
           /\ LastRet.kind = "Ok" =>
                  /\ block_count = NumChunks(args.len)
                  /\ fs[args.path].exists /\ Len(fs[args.path].bytes) = args.len
           /\ LastRet.kind = "IoError" =>
                  \/ LastRet.msg = "create" /\ fs = FilesAtStart
                  \/ /\ LastRet.msg = "write"
                     /\ fs[args.path].exists /\ Len(fs[args.path].bytes) < args.len
    /\ (args.fn = "decrypt_track" /\ pc = "track_loop") =>
           /\ cursor = Min(2048 * block_count, args.len)
           /\ Len(fs[args.path].bytes) = cursor

BlowfishPathNeverFailsItselfWitness ==
    /\ Returned("decrypt_track") /\ LastRet.kind = "Ok"
    /\ args.song_id = "" /\ args.len = 0 /\ args.path = "a"
    /\ track_key = <<102, 57, 108, 56, 61, 98, 42, 98, 109, 127, 32, 110, 111, 110, 102, 96>>
    /\ fs["a"] = [exists |-> TRUE, bytes |-> <<>>]

\* Flac is above Mp3_320, Mp3_320 above Mp3_128
QualityRank(format) ==
    CASE format = "FLAC" -> 3
      [] format = "MP3_320" -> 2
      [] format = "MP3_128" -> 1

\* the answer of the server to a request holds at least one URL
YieldsUrl(request) == request.response \in {"one_source", "two_sources"}

PreferredFormat ==
    CASE media.preferred_quality = "Flac" -> "FLAC"
      [] media.preferred_quality = "Mp3_320" -> "MP3_320"
      [] media.preferred_quality = "Mp3_128" -> "MP3_128"

\* C28: find_media_url requests the preferred quality first and then each
\* next lower one (FLAC, MP3_320, MP3_128), never one above the preferred; it
\* goes on to the next quality after a gateway error or an answer without a
\* URL and returns the quality and the first URL of the first answer that
\* holds one; it returns NoRightOnMedia only when every quality from the
\* preferred one down to MP3_128 has been requested without a URL.
QualityFallback ==
    LET asked == media.requests
        n == Len(asked)
    IN /\ \A k \in 1..n :
              /\ QualityRank(asked[k].format) = QualityRank(PreferredFormat) - (k - 1)
              /\ QualityRank(asked[k].format) <= QualityRank(PreferredFormat)
              /\ k < n => ~YieldsUrl(asked[k])
       /\ media.pc = "media_loop" => \A k \in 1..n : ~YieldsUrl(asked[k])
       /\ (media.pc = "done" /\ media.result.kind = "Ok") =>
              /\ n >= 1 /\ YieldsUrl(asked[n])
              /\ Format(media.result.value[2]) = asked[n].format
              /\ media.result.value[1] = [url |-> "cdn1", format |-> asked[n].format,
                                          cipher |-> "BF_CBC_STRIPE"]
       /\ (media.pc = "done" /\ media.result.kind /= "Ok") =>
              /\ media.result.kind = "NoRightOnMedia"
              /\ n = QualityRank(PreferredFormat)
              /\ \A k \in 1..n : ~YieldsUrl(asked[k])
       /\ media.pc = "done" => media.result.kind \in {"Ok", "NoRightOnMedia"}

QualityFallbackWitness ==
    /\ media.pc = "done"
    /\ media.preferred_quality = "Mp3_320"
    /\ media.requests = <<[format |-> "MP3_320", response |-> "errors"],
                          [format |-> "MP3_128", response |-> "two_sources"]>>
    /\ media.result = Ok(<<MediaUrl("cdn1", "MP3_128"), "Mp3_128">>)

\* the title that an entry of 'failed' names: the last part of its name
FailedTitle(entry) == entry[1][Len(entry[1])]

\* the titles of the entries of a list of results or failures, in order
SuccessTitles(successful) == [k \in 1..Len(successful) |-> successful[k].title]

FailedTitles(failed) == [k \in 1..Len(failed) |-> FailedTitle(failed[k])]

\* s holds elements of the track list in the order of the list
InListOrder(s) ==
    \A j, k \in 1..Len(s) :
        j < k => \E a, b \in 1..Len(batch.tracks) :
                     a < b /\ batch.tracks[a].title = s[j] /\ batch.tracks[b].title = s[k]

\* C29: once download_album_to or download_playlist_to has fetched the
\* metadata and created the directory, it attempts the tracks in list order
\* and returns only after the last one, with Ok: after idx tracks, each of the
\* first idx tracks is named in exactly one of 'successful' and 'failed', a
\* track without a Deezer ID in 'failed' with "No track ID", both lists in
\* list order, and successful.len() + failed.len() = idx; at the return idx is
\* the number of tracks and total() equals it.
BatchAttemptsEveryTrack ==
    batch.fetched =>
        /\ Len(batch.successful) + Len(batch.failed) = batch.idx
        /\ \A i \in 1..Len(batch.tracks) :
               LET title == batch.tracks[i].title
                   ok == \E k \in 1..Len(batch.successful) : batch.successful[k].title = title
                   ko == \E k \in 1..Len(batch.failed) : FailedTitle(batch.failed[k]) = title
               IN /\ i <= batch.idx => (ok /= ko)
                  /\ i > batch.idx => (~ok /\ ~ko)
                  /\ (i <= batch.idx /\ ~batch.tracks[i].deezer.some) =>
                         \E k \in 1..Len(batch.failed) :
                             batch.failed[k] = <<<<title>>, "No track ID">>
        /\ InListOrder(SuccessTitles(batch.successful))
        /\ InListOrder(FailedTitles(batch.failed))
        /\ batch.pc = "done" =>
               /\ batch.idx = Len(batch.tracks)
               /\ batch.result.kind = "Ok"
               /\ batch.result.value.successful = batch.successful
               /\ batch.result.value.failed = batch.failed
               /\ total(batch.result.value) = Len(batch.tracks)

BatchAttemptsEveryTrackWitness ==
    /\ batch.pc = "done" /\ batch.fetched
    /\ batch.fn = "download_playlist_to"
    /\ Len(batch.tracks) = 3
    /\ batch.result.kind = "Ok"
    /\ batch.result.value.failed
           = <<<<<<"T1">>, "No track ID">>,
               <<<<"A", " - ", "T2">>, "Track not found: Not readable">>>>
    /\ batch.result.value.successful = <<[title |-> "T3", position |-> 3]>>
    /\ total(batch.result.value) = 3
====
